---- MODULE Spec2Model ----
(***************************************************************************)
(* The API-key gateway of SkyWatch: APIKeyMiddleware (api/middleware.py),  *)
(* the in-memory RateLimiter, the tier tables and quota dates of           *)
(* api/auth.py, the key dependency of api/dependencies.py and the key      *)
(* management endpoints of api/routers/auth.py.                            *)
(*                                                                         *)
(* Requests are coroutines of one event loop: a request runs from one      *)
(* await that reaches the database (or the downstream application) to the  *)
(* next without interruption, and any other request may run in between.    *)
(* Every action below is one such uninterrupted stretch of the code.       *)
(***************************************************************************)
EXTENDS Integers, Sequences, FiniteSets, TLC

\* ---------------------------------------------------------------- bounds
MaxReq == 2      \* requests that arrive
MaxTicks == 1    \* times the clock advances
MaxMgmt == 1     \* key-management calls
MaxKeyOps == 3   \* key-management calls of the key-management specification

\* ------------------------------------------------------- time and dates
\* The wall clock is a number of seconds since 2024-11-01T00:00:00Z; both
\* time.time() and datetime.now(UTC) read it.
IsLeap(y) == (y % 4 = 0 /\ y % 100 # 0) \/ y % 400 = 0

DaysInMonth(y, m) ==
    IF m = 2 THEN (IF IsLeap(y) THEN 29 ELSE 28)
    ELSE IF m \in {4, 6, 9, 11} THEN 30 ELSE 31

DaySeconds == 24 * 3600

RECURSIVE FromClock(_, _, _)
FromClock(t, y, m) ==
    LET len == DaysInMonth(y, m) * DaySeconds IN
    IF t < len
    THEN [year |-> y, month |-> m, day |-> 1 + (t \div DaySeconds), sec |-> t % DaySeconds]
    ELSE FromClock(t - len, IF m = 12 THEN y + 1 ELSE y, IF m = 12 THEN 1 ELSE m + 1)

\* datetime.now(UTC) when the clock reads t
utcnow(t) == FromClock(t, 2024, 11)

\* datetime(year, month, day, tzinfo=UTC)
datetime(y, m, d) == [year |-> y, month |-> m, day |-> d, sec |-> 0]

\* the order of datetimes (Python compares them field by field)
DtGE(a, b) ==
    \/ a.year > b.year
    \/ a.year = b.year /\ a.month > b.month
    \/ a.year = b.year /\ a.month = b.month /\ a.day > b.day
    \/ a.year = b.year /\ a.month = b.month /\ a.day = b.day /\ a.sec >= b.sec

\* a null DateTime column
NoDate == [year |-> 0, month |-> 0, day |-> 0, sec |-> 0]

\* calculate_quota_reset_date, and faulty variants: one that stays in the
\* month, one that has no branch for December
calculate_quota_reset_date_same(t) ==
    LET n == utcnow(t) IN datetime(n.year, n.month, 1)
calculate_quota_reset_date_norollover(t) ==
    LET n == utcnow(t) IN datetime(n.year, n.month + 1, 1)
calculate_quota_reset_date(t) ==
    LET n == utcnow(t) IN
    IF n.month = 12 THEN datetime(n.year + 1, 1, 1)
    ELSE datetime(n.year, n.month + 1, 1)

\* is_quota_expired, and faulty variants: one that always answers yes, one
\* that compares with > instead of >=
is_quota_expired_always(reset_date, t) == TRUE
is_quota_expired_after(reset_date, t) ==
    LET n == utcnow(t) IN DtGE(n, reset_date) /\ n # reset_date
is_quota_expired(reset_date, t) == DtGE(utcnow(t), reset_date)

\* ------------------------------------------------------------ tier policy
quota_tier_limits == [free |-> 1000, basic |-> 10000, pro |-> 100000, enterprise |-> 1000000]
rate_tier_limits == [free |-> 60, basic |-> 300, pro |-> 1000, enterprise |-> 5000]

get_quota_limit_for_tier(tier) ==
    IF tier \in DOMAIN quota_tier_limits THEN quota_tier_limits[tier] ELSE 1000

\* (a faulty variant: an unknown tier name gets the largest hourly limit)
get_rate_limit_for_tier_open(tier) ==
    IF tier \in DOMAIN rate_tier_limits THEN rate_tier_limits[tier] ELSE 5000

get_rate_limit_for_tier(tier) ==
    IF tier \in DOMAIN rate_tier_limits THEN rate_tier_limits[tier] ELSE 60

\* --------------------------------------------------------- secrets, hashes
\* A secret is the string generate_api_key returns; "" is an absent header.
NoKey == ""
InitSecrets == <<"k1", "k2">>
FreshSecrets == <<"k3", "k4", "k5", "k6", "k7">>
BadSecret == "bad"
Salts == {"s1"}

\* generate_api_key: "sk_live_" and the 64 hexadecimal digits of 32 random bytes
generate_api_key(random_hex) == "sk_live_" \o random_hex
RandomHex == {"0123456789abcdef0123456789abcdef0123456789abcdef0123456789abcdef",
              "0123456789abcdef0123456789abcdef0123456789abcdef0123456789abcde0"}

\* bcrypt reads the first 72 bytes of a secret and no more
BcryptMaxSecret == 72
bcrypt_secret(secret) ==
    IF Len(secret) > BcryptMaxSecret THEN SubSeq(secret, 1, BcryptMaxSecret) ELSE secret

\* bcrypt: the stored hash carries its salt and the digest of salt and secret
hash_api_key(api_key, salt) ==
    [alg |-> "bcrypt", salt |-> salt, digest |-> <<salt, bcrypt_secret(api_key)>>]

\* a stored value that is no bcrypt hash: bcrypt.verify raises, the except
\* clause answers False
MalformedHash == [alg |-> "malformed", salt |-> "", digest |-> <<>>]

verify_api_key(api_key, hashed_key) ==
    /\ hashed_key.alg = "bcrypt"
    /\ hashed_key.digest = <<hashed_key.salt, bcrypt_secret(api_key)>>

AllSecrets == {InitSecrets[i] : i \in 1..Len(InitSecrets)}
                \cup {FreshSecrets[i] : i \in 1..Len(FreshSecrets)}
Hashes == {hash_api_key(k, s) : k \in AllSecrets, s \in Salts}

\* ------------------------------------------------------------------ paths
\* A path is the sequence of its characters.
PathSightings == <<"/", "v", "1", "/", "s", "i", "g", "h", "t", "i", "n", "g", "s">>
PathHealth == <<"/", "h", "e", "a", "l", "t", "h">>
\* request.url.path is the empty string when the URL built from the Host
\* header and scope["path"] has no path component
PathEmpty == <<>>

public_endpoints ==
    << <<"/">>,
       <<"/", "h", "e", "a", "l", "t", "h">>,
       <<"/", "d", "o", "c", "s">>,
       <<"/", "r", "e", "d", "o", "c">>,
       <<"/", "o", "p", "e", "n", "a", "p", "i", ".", "j", "s", "o", "n">>,
       <<"/", "s", "w", "a", "g", "g", "e", "r">>,
       <<"/", "s", "t", "a", "t", "i", "c">>,
       <<"/", "m", "a", "p">>,
       <<"/", "v", "1", "/", "m", "a", "p">>,
       <<"/", "v", "1", "/", "a", "u", "t", "h", "/", "r", "e", "g", "i", "s", "t", "e", "r">>,
       <<"/", "v", "1", "/", "a", "u", "t", "h", "/", "l", "o", "g", "i", "n">>,
       <<"/", "v", "1", "/", "a", "u", "t", "h", "/", "m", "e">>,
       <<"/", "v", "1", "/", "a", "u", "t", "h", "/", "k", "e", "y", "s">>,
       <<"/", "v", "1", "/", "r", "e", "s", "e", "a", "r", "c", "h">> >>

\* str.startswith
startswith(path, prefix) ==
    /\ Len(prefix) <= Len(path)
    /\ SubSeq(path, 1, Len(prefix)) = prefix

\* (first a faulty variant with an empty allowlist)
_is_public_endpoint_none(path) == FALSE
_is_public_endpoint(path) ==
    \E i \in 1..Len(public_endpoints) : startswith(path, public_endpoints[i])

\* the routes of the application that the model's paths reach, and whether
\* the route's handler depends on CurrentApiKey
RouteExists(path) == path \in {PathSightings, PathHealth}
RouteNeedsApiKey(path) == path = PathSightings

\* ------------------------------------------------------------ rate limiter
RateWindow == 3600

\* while requests and requests[0] < hour_ago: requests.popleft()
RECURSIVE DropOld(_, _)
DropOld(requests, hour_ago) ==
    IF requests # <<>> /\ Head(requests) < hour_ago
    THEN DropOld(Tail(requests), hour_ago)
    ELSE requests

\* RateLimiter.is_allowed on the deque of one key hash: the answer and the
\* deque it leaves behind (first a faulty variant that compares with >)
is_allowed_over(requests, rate_limit, t) ==
    LET kept == DropOld(requests, t - RateWindow) IN
    IF Len(kept) > rate_limit
    THEN [allowed |-> FALSE, requests |-> kept]
    ELSE [allowed |-> TRUE, requests |-> Append(kept, t)]
\* (a faulty variant that records the rejected attempt too)
is_allowed_record(requests, rate_limit, t) ==
    LET kept == DropOld(requests, t - RateWindow) IN
    IF Len(kept) >= rate_limit
    THEN [allowed |-> FALSE, requests |-> Append(kept, t)]
    ELSE [allowed |-> TRUE, requests |-> Append(kept, t)]

is_allowed(requests, rate_limit, t) ==
    LET kept == DropOld(requests, t - RateWindow) IN
    IF Len(kept) >= rate_limit
    THEN [allowed |-> FALSE, requests |-> kept]
    ELSE [allowed |-> TRUE, requests |-> Append(kept, t)]

\* ------------------------------------------------------------------ state
VARIABLES
    now,            \* the wall clock, seconds since 2024-11-01T00:00:00Z
    ticks,          \* how often the clock has advanced
    api_keys,       \* table api_keys: the row with id i is api_keys[i]
    usage,          \* table usage, in insertion order
    rate_requests,  \* rate_limiter.requests: key hash -> deque of timestamps
    req,            \* the requests in flight: position in __call__ and locals
    arrivals,       \* how many requests have arrived
    regens,         \* how many secrets generate_api_key has issued
    calls,          \* how many key-management calls have been made
    mgmt,           \* the answer of the latest key-management call
    creates,        \* the create_api_key calls in flight
    probe           \* the latest call of a function of the tier and key policy

vars == <<now, ticks, api_keys, usage, rate_requests, req, arrivals, regens, calls, mgmt,
          creates, probe>>

\* The event loop has two requests in flight at a time: a request takes the
\* place of one that has returned.
Req == {1, 2}

NoDetails ==
    [quota_limit |-> 0, quota_used |-> 0, quota_reset_date |-> NoDate,
     rate_limit |-> 0, retry_after |-> 0]
NoResponse == [by |-> "none", status |-> 0, error |-> "", message |-> "", details |-> NoDetails]

NoInfo ==
    [id |-> 0, key_hash |-> [alg |-> "", salt |-> "", digest |-> <<"", "">>], tier |-> "",
     quota_limit |-> 0, quota_used |-> 0, quota_reset_date |-> NoDate,
     is_active |-> FALSE, last_used |-> NoDate, user_id |-> 0]

IdleRequest ==
    [pc |-> "idle", id |-> 0, path |-> <<>>, route |-> <<>>, api_key |-> NoKey, bypass |-> FALSE, info |-> NoInfo,
     state_api_key |-> NoInfo, response |-> NoResponse, ran |-> FALSE, did_reset |-> FALSE,
     charged |-> FALSE, raised |-> FALSE]

\* an exception leaves __call__ before any response was started: no
\* exception handler is registered for Exception, and the server answers 500
ServerError == [by |-> "server", status |-> 500, error |-> "", message |-> "", details |-> NoDetails]

\* create_error_response
create_error_response(error, message, status_code, details) ==
    [by |-> "gateway", status |-> status_code, error |-> error, message |-> message,
     details |-> details]

MsgKeyRequired == "API key required. Include 'X-API-Key' header or 'Authorization: Bearer <key>' header."
MsgInvalid == "The provided API key is invalid or has been revoked."
MsgDisabled == "This API key has been disabled."
MsgQuota(quota_limit) == "Monthly quota of " \o ToString(quota_limit) \o " requests exceeded."
MsgRate(rate_limit) == "Rate limit of " \o ToString(rate_limit) \o " requests per hour exceeded."

\* ApiKeyResponse: the fields of a key record that a response carries (name
\* and created_at are not modelled); first a faulty variant that carries the
\* whole record
ApiKeyResponse_all(row) == row
ApiKeyResponse(row) ==
    [id |-> row.id, tier |-> row.tier, quota_limit |-> row.quota_limit,
     quota_used |-> row.quota_used, quota_reset_date |-> row.quota_reset_date,
     is_active |-> row.is_active, last_used |-> row.last_used]

\* the answer of a key-management call: its status, the secret of
\* ApiKeyCreateResponse.api_key, its key_info, and the list of list_api_keys
NoAnswer ==
    [op |-> "none", user |-> 0, key_id |-> 0, status |-> 0, api_key |-> NoKey,
     key_info |-> ApiKeyResponse(NoInfo), keys |-> <<>>]

\* no function of the policy has been called
NoProbe == [fn |-> "none"]

\* two create_api_key calls can be in flight together
Callers == {1, 2}
IdleCreate == [pc |-> "idle", user |-> 0, tier |-> ""]

\* ------------------------------------------------------------------- Init
\* The clock starts half an hour before 2024-12-01T00:00:00Z.
StartClock == 30 * DaySeconds - 1800

\* Key 1 (free tier, user 1) is either in use, one request below its monthly
\* quota, with 59 requests in the last hour and one older; or it was last
\* used in September with its quota exhausted, so that its period has run
\* out.  Key 2 (basic tier, user 2) is unused.
Key1(used, reset_date) ==
    [id |-> 1, key_hash |-> hash_api_key(InitSecrets[1], "s1"), tier |-> "free",
     quota_limit |-> get_quota_limit_for_tier("free"), quota_used |-> used,
     quota_reset_date |-> reset_date, is_active |-> TRUE, last_used |-> NoDate, user_id |-> 1]

InitKey2 ==
    [id |-> 2, key_hash |-> hash_api_key(InitSecrets[2], "s1"), tier |-> "basic",
     quota_limit |-> get_quota_limit_for_tier("basic"), quota_used |-> 0,
     quota_reset_date |-> datetime(2024, 12, 1), is_active |-> TRUE, last_used |-> NoDate,
     user_id |-> 2]

BusyWindow ==
    <<StartClock - 5400>>
        \o [i \in 1..(get_rate_limit_for_tier("free") - 1) |-> StartClock - 1800]

InitScenarios ==
    {[key |-> Key1(get_quota_limit_for_tier("free") - 1, datetime(2024, 12, 1)),
      window |-> BusyWindow],
     [key |-> Key1(get_quota_limit_for_tier("free"), datetime(2024, 10, 1)),
      window |-> <<>>]}

Init ==
    /\ now = StartClock
    /\ ticks = 0
    /\ \E sc \in InitScenarios :
         /\ api_keys = <<sc.key, InitKey2>>
         /\ rate_requests = [h \in Hashes |-> IF h = sc.key.key_hash THEN sc.window ELSE <<>>]
    /\ usage = <<>>
    /\ req = [r \in Req |-> IdleRequest]
    /\ arrivals = 0
    /\ regens = 0
    /\ calls = 0
    /\ mgmt = NoAnswer
    /\ creates = [c \in Callers |-> IdleCreate]
    /\ probe = NoProbe

\* ---------------------------------------------------------------- gateway
Set(r, rec) == req' = [req EXCEPT ![r] = rec]

\* __call__ returns: what stays of the request is what it was sent, the
\* record the gateway resolved for it, what it was answered and what it did;
\* the request scope is gone
Return(request) ==
    [request EXCEPT !.pc = "done", !.state_api_key = NoInfo]

\* the gateway answers the request itself and returns
Reject(request, response) == Return([request EXCEPT !.response = response])

\* _extract_api_key: X-API-Key first, then Authorization: Bearer <key>
_extract_api_key(x_api_key, bearer) ==
    IF x_api_key # "" THEN x_api_key
    ELSE IF bearer # "" THEN bearer
    ELSE NoKey

\* the headers a request may carry: no key, a key that was never issued,
\* the secret of key 1 or a secret that regenerate_api_key has returned, in
\* either header
PresentedKeys ==
    {NoKey, BadSecret, InitSecrets[1]} \cup {FreshSecrets[i] : i \in 1..regens}
Headers ==
    {[x_api_key |-> k, bearer |-> ""] : k \in PresentedKeys}
        \cup {[x_api_key |-> "", bearer |-> k] : k \in PresentedKeys}

\* The requests that arrive.  path is request.url.path, which the gateway
\* tests, and route is scope["path"], which the application routes on.
\* request.url is built from the Host header followed by scope["path"], so
\* the two agree for a request with a plain Host header; for the request
\* target * and for a Host header that ends the authority (ends in # or ?),
\* request.url.path is the empty string.
PathStar == <<"*">>

\* /v1/sightings without a key, with a key that was never issued and with
\* the first secret of key 1, and the target *, which no route matches, with
\* any headers
PlainHeaders ==
    {[x_api_key |-> k, bearer |-> ""] : k \in {NoKey, BadSecret, InitSecrets[1]}}

Arrivals ==
    {[path |-> PathSightings, route |-> PathSightings, headers |-> h] : h \in PlainHeaders}
        \cup {[path |-> PathEmpty, route |-> PathStar, headers |-> h] : h \in Headers}

\* /health with the same headers
PublicArrivals ==
    {[path |-> PathHealth, route |-> PathHealth, headers |-> h] : h \in PlainHeaders}

\* /v1/sightings behind a Host header that ends the authority
HostArrivals ==
    {[path |-> PathEmpty, route |-> PathSightings, headers |-> h] : h \in Headers}

\* _validate_api_key: the first active row whose hash verifies the key
ActiveMatches(api_key) ==
    {i \in DOMAIN api_keys :
        api_keys[i].is_active /\ verify_api_key(api_key, api_keys[i].key_hash)}

_validate_api_key(api_key) ==
    LET m == ActiveMatches(api_key) IN
    IF m = {} THEN NoInfo
    ELSE api_keys[CHOOSE i \in m : \A j \in m : i <= j]

\* __call__ from its entry to the resolution of the key: the public-path
\* bypass, the extraction of the key and the lookup of its record
Begin(id, path, route, headers) ==
    LET api_key == _extract_api_key(headers.x_api_key, headers.bearer)
        fresh == [IdleRequest EXCEPT !.id = id, !.path = path, !.route = route,
                                     !.api_key = api_key]
    IN
    IF _is_public_endpoint(path)
    THEN [fresh EXCEPT !.pc = "app", !.bypass = TRUE]
    ELSE IF api_key = NoKey
    THEN Reject(fresh, create_error_response("authentication_error", MsgKeyRequired, 401,
                                             NoDetails))
    ELSE LET api_key_info == _validate_api_key(api_key) IN
         IF api_key_info = NoInfo
         THEN Reject(fresh, create_error_response("authentication_error", MsgInvalid, 401,
                                                  NoDetails))
         ELSE IF ~api_key_info.is_active
         THEN Reject(fresh, create_error_response("authentication_error", MsgDisabled, 401,
                                                  NoDetails))
         ELSE [fresh EXCEPT !.pc = "quota", !.info = api_key_info]

Start(r, path, route, headers) ==
    /\ arrivals < MaxReq
    /\ req[r].pc \in {"idle", "done"}
    /\ \A q \in Req : q < r => req[q].pc \notin {"idle", "done"}
    /\ arrivals' = arrivals + 1
    /\ Set(r, Begin(arrivals + 1, path, route, headers))
    /\ UNCHANGED <<now, ticks, api_keys, usage, rate_requests, regens, calls, mgmt, creates, probe>>

\* the rate-limit check of __call__ and, when it passes, the attachment of
\* the key to the request scope
RateCheck(r) ==
    LET info == req[r].info
        rate_limit == get_rate_limit_for_tier(info.tier)
        res == is_allowed(rate_requests[info.key_hash], rate_limit, now)
    IN
    /\ rate_requests' = [rate_requests EXCEPT ![info.key_hash] = res.requests]
    /\ IF res.allowed
       THEN Set(r, [req[r] EXCEPT !.pc = "app", !.state_api_key = info])
       ELSE Set(r, Reject(req[r], create_error_response("rate_limit_exceeded",
                        MsgRate(rate_limit), 429,
                        [NoDetails EXCEPT !.rate_limit = rate_limit, !.retry_after = 3600])))

\* the row that _reset_quota's UPDATE leaves (first a faulty variant that
\* takes one off quota_used)
ResetRow_decr(row, t) ==
    [row EXCEPT !.quota_used = @ - 1, !.quota_reset_date = calculate_quota_reset_date(t)]
ResetRow(row, t) ==
    [row EXCEPT !.quota_used = 0, !.quota_reset_date = calculate_quota_reset_date(t)]

\* the answer of _is_quota_exceeded when the period has not run out (first a
\* faulty variant that compares with >)
QuotaExceeded_gt(info) == info.quota_used > info.quota_limit
QuotaExceeded(info) == info.quota_used >= info.quota_limit

\* a faulty variant of the quota check that asks the rate limiter first
CheckQuota_ratefirst(r) ==
    /\ req[r].pc = "quota"
    /\ LET info == req[r].info
           rate_limit == get_rate_limit_for_tier(info.tier)
           res == is_allowed(rate_requests[info.key_hash], rate_limit, now)
       IN
       /\ rate_requests' = [rate_requests EXCEPT ![info.key_hash] = res.requests]
       /\ UNCHANGED api_keys
       /\ IF ~res.allowed
          THEN Set(r, Reject(req[r], create_error_response("rate_limit_exceeded",
                        MsgRate(rate_limit), 429,
                        [NoDetails EXCEPT !.rate_limit = rate_limit, !.retry_after = 3600])))
          ELSE IF QuotaExceeded(info)
          THEN Set(r, Reject(req[r], create_error_response("quota_exceeded",
                        MsgQuota(info.quota_limit), 429,
                        [NoDetails EXCEPT !.quota_limit = info.quota_limit,
                                          !.quota_used = info.quota_used,
                                          !.quota_reset_date = info.quota_reset_date])))
          ELSE Set(r, [req[r] EXCEPT !.pc = "app", !.state_api_key = info])
    /\ UNCHANGED <<now, ticks, usage, arrivals, regens, calls, mgmt, creates, probe>>

\* _is_quota_exceeded on the record that _validate_api_key returned: a
\* period that has run out is reset (and the request goes on to the rate
\* limit after the commit); otherwise the quota is compared and the rate
\* limit checked.
CheckQuota(r) ==
    /\ req[r].pc = "quota"
    /\ LET info == req[r].info IN
       IF is_quota_expired(info.quota_reset_date, now)
       THEN /\ api_keys' = [api_keys EXCEPT ![info.id] = ResetRow(@, now)]
            /\ Set(r, [req[r] EXCEPT !.pc = "rate", !.did_reset = TRUE])
            /\ UNCHANGED rate_requests
       ELSE IF QuotaExceeded(info)
       THEN /\ Set(r, Reject(req[r], create_error_response("quota_exceeded",
                        MsgQuota(info.quota_limit), 429,
                        [NoDetails EXCEPT !.quota_limit = info.quota_limit,
                                          !.quota_used = info.quota_used,
                                          !.quota_reset_date = info.quota_reset_date])))
            /\ UNCHANGED <<api_keys, rate_requests>>
       ELSE /\ RateCheck(r)
            /\ UNCHANGED api_keys
    /\ UNCHANGED <<now, ticks, usage, arrivals, regens, calls, mgmt, creates, probe>>

\* the rate-limit check of a request that has reset its key's quota
CheckRate(r) ==
    /\ req[r].pc = "rate"
    /\ RateCheck(r)
    /\ UNCHANGED <<now, ticks, api_keys, usage, arrivals, regens, calls, mgmt, creates, probe>>

\* get_current_api_key: the key the gateway attached to the scope
get_current_api_key(request) == request.state_api_key

\* what the downstream application answers: no route, the key dependency's
\* 401, or the handler's own result (a response, or an exception that no
\* registered handler catches)
HandlerResults == {"200", "raise"}

AppResponse(request, result) ==
    IF ~RouteExists(request.route)
    THEN [by |-> "app", status |-> 404, error |-> "not_found", message |-> "Not Found",
          details |-> NoDetails]
    ELSE IF RouteNeedsApiKey(request.route) /\ get_current_api_key(request) = NoInfo
    THEN [by |-> "app", status |-> 401, error |-> "authentication_error",
          message |-> "API key required", details |-> NoDetails]
    ELSE IF result = "200"
    THEN [by |-> "app", status |-> 200, error |-> "", message |-> "", details |-> NoDetails]
    ELSE ServerError

HandlerRan(request) ==
    /\ RouteExists(request.route)
    /\ RouteNeedsApiKey(request.route) => get_current_api_key(request) # NoInfo

\* _record_usage: the row of table usage (req names the request it is for)
UsageRow(request) ==
    [api_key_id |-> request.info.id, endpoint |-> request.path,
     response_status |-> request.response.status, req |-> request.id]

\* await self.app(scope, receive, send) returns: a bypassed request ends
\* here, and so does one whose application raised; for an admitted request
\* that got a response _record_usage inserts its row
App(r, result) ==
    /\ req[r].pc = "app"
    /\ LET response == AppResponse(req[r], result)
           answered == [req[r] EXCEPT !.response = response, !.ran = HandlerRan(req[r]),
                                      !.raised = response.by = "server"]
       IN
       IF req[r].bypass \/ response.by = "server"
       THEN /\ Set(r, Return(answered))
            /\ UNCHANGED usage
       ELSE /\ Set(r, [answered EXCEPT !.pc = "update"])
            /\ usage' = Append(usage, UsageRow(answered))
    /\ UNCHANGED <<now, ticks, api_keys, rate_requests, arrivals, regens, calls, mgmt, creates, probe>>

\* the row that _update_api_key_usage's UPDATE leaves (first a faulty variant
\* that adds two)
ChargedRow_twice(row, t) == [row EXCEPT !.quota_used = @ + 2, !.last_used = utcnow(t)]
ChargedRow(row, t) == [row EXCEPT !.quota_used = @ + 1, !.last_used = utcnow(t)]

UpdateUsage(r) ==
    /\ req[r].pc = "update"
    /\ api_keys' = [api_keys EXCEPT ![req[r].info.id] = ChargedRow(@, now)]
    /\ Set(r, Return([req[r] EXCEPT !.charged = TRUE]))
    /\ UNCHANGED <<now, ticks, usage, rate_requests, arrivals, regens, calls, mgmt, creates, probe>>

\* ---------------------------------------------------------- key management
\* (first a faulty variant of regenerate_api_key that finds inactive keys
\* too and activates the key it regenerates)
Regenerate_revive(user, key_id) ==
    /\ calls' = calls + 1
    /\ IF key_id \in DOMAIN api_keys /\ api_keys[key_id].user_id = user
       THEN LET new_api_key == FreshSecrets[regens + 1] IN
            /\ api_keys' = [api_keys EXCEPT ![key_id].key_hash = hash_api_key(new_api_key, "s1"),
                                            ![key_id].last_used = NoDate,
                                            ![key_id].is_active = TRUE]
            /\ mgmt' = [NoAnswer EXCEPT !.op = "regenerate", !.user = user, !.key_id = key_id,
                                        !.status = 200, !.api_key = new_api_key,
                                        !.key_info = ApiKeyResponse(api_keys'[key_id])]
            /\ regens' = regens + 1
       ELSE /\ mgmt' = [NoAnswer EXCEPT !.op = "regenerate", !.user = user, !.key_id = key_id,
                                        !.status = 404]
            /\ UNCHANGED <<api_keys, regens>>
    /\ UNCHANGED <<now, ticks, usage, rate_requests, req, arrivals, creates, probe>>

\* (and a faulty variant that also clears quota_used)
Regenerate_clear(user, key_id) ==
    /\ calls' = calls + 1
    /\ IF key_id \in DOMAIN api_keys /\ api_keys[key_id].user_id = user
                                     /\ api_keys[key_id].is_active
       THEN LET new_api_key == FreshSecrets[regens + 1] IN
            /\ api_keys' = [api_keys EXCEPT ![key_id].key_hash = hash_api_key(new_api_key, "s1"),
                                            ![key_id].last_used = NoDate,
                                            ![key_id].quota_used = 0]
            /\ mgmt' = [NoAnswer EXCEPT !.op = "regenerate", !.user = user, !.key_id = key_id,
                                        !.status = 200, !.api_key = new_api_key,
                                        !.key_info = ApiKeyResponse(api_keys'[key_id])]
            /\ regens' = regens + 1
       ELSE /\ mgmt' = [NoAnswer EXCEPT !.op = "regenerate", !.user = user, !.key_id = key_id,
                                        !.status = 404]
            /\ UNCHANGED <<api_keys, regens>>
    /\ UNCHANGED <<now, ticks, usage, rate_requests, req, arrivals, creates, probe>>

\* regenerate_api_key(key_id) called by a user
Regenerate(user, key_id) ==
    /\ calls' = calls + 1
    /\ IF key_id \in DOMAIN api_keys /\ api_keys[key_id].user_id = user
                                     /\ api_keys[key_id].is_active
       THEN LET new_api_key == FreshSecrets[regens + 1] IN
            /\ api_keys' = [api_keys EXCEPT ![key_id].key_hash = hash_api_key(new_api_key, "s1"),
                                            ![key_id].last_used = NoDate]
            /\ mgmt' = [NoAnswer EXCEPT !.op = "regenerate", !.user = user, !.key_id = key_id,
                                        !.status = 200, !.api_key = new_api_key,
                                        !.key_info = ApiKeyResponse(api_keys'[key_id])]
            /\ regens' = regens + 1
       ELSE /\ mgmt' = [NoAnswer EXCEPT !.op = "regenerate", !.user = user, !.key_id = key_id,
                                        !.status = 404]
            /\ UNCHANGED <<api_keys, regens>>
    /\ UNCHANGED <<now, ticks, usage, rate_requests, req, arrivals, creates, probe>>

\* deactivate_api_key(key_id) called by a user (first a faulty variant that
\* deletes the key's usage rows, as session.delete(api_key) would by cascade)
Deactivate_delete(user, key_id) ==
    /\ calls' = calls + 1
    /\ IF key_id \in DOMAIN api_keys /\ api_keys[key_id].user_id = user
       THEN /\ api_keys' = [api_keys EXCEPT ![key_id].is_active = FALSE]
            /\ usage' = SelectSeq(usage, LAMBDA row : row.api_key_id # key_id)
            /\ mgmt' = [NoAnswer EXCEPT !.op = "deactivate", !.user = user, !.key_id = key_id,
                                        !.status = 200]
       ELSE /\ mgmt' = [NoAnswer EXCEPT !.op = "deactivate", !.user = user, !.key_id = key_id,
                                        !.status = 404]
            /\ UNCHANGED <<api_keys, usage>>
    /\ UNCHANGED <<now, ticks, rate_requests, req, arrivals, regens, creates, probe>>

\* (a faulty variant that finds the key by its id alone)
Deactivate_anyowner(user, key_id) ==
    /\ calls' = calls + 1
    /\ IF key_id \in DOMAIN api_keys
       THEN /\ api_keys' = [api_keys EXCEPT ![key_id].is_active = FALSE]
            /\ mgmt' = [NoAnswer EXCEPT !.op = "deactivate", !.user = user, !.key_id = key_id,
                                        !.status = 200]
       ELSE /\ mgmt' = [NoAnswer EXCEPT !.op = "deactivate", !.user = user, !.key_id = key_id,
                                        !.status = 404]
            /\ UNCHANGED api_keys
    /\ UNCHANGED <<now, ticks, usage, rate_requests, req, arrivals, regens, creates, probe>>

Deactivate(user, key_id) ==
    /\ calls' = calls + 1
    /\ IF key_id \in DOMAIN api_keys /\ api_keys[key_id].user_id = user
       THEN /\ api_keys' = [api_keys EXCEPT ![key_id].is_active = FALSE]
            /\ mgmt' = [NoAnswer EXCEPT !.op = "deactivate", !.user = user, !.key_id = key_id,
                                        !.status = 200]
       ELSE /\ mgmt' = [NoAnswer EXCEPT !.op = "deactivate", !.user = user, !.key_id = key_id,
                                        !.status = 404]
            /\ UNCHANGED api_keys
    /\ UNCHANGED <<now, ticks, usage, rate_requests, req, arrivals, regens, creates, probe>>

\* the ids of the active keys of a user
ActiveKeysOf(user) ==
    {i \in DOMAIN api_keys : api_keys[i].user_id = user /\ api_keys[i].is_active}

\* order_by(desc(created_at)): keys are created in the order of their ids
RECURSIVE Descending(_)
Descending(S) ==
    IF S = {} THEN <<>>
    ELSE LET m == CHOOSE x \in S : \A y \in S : y <= x IN <<m>> \o Descending(S \ {m})

\* list_api_keys called by a user
list_api_keys(user) ==
    LET ids == Descending(ActiveKeysOf(user)) IN
    [i \in 1..Len(ids) |-> ApiKeyResponse(api_keys[ids[i]])]

ListKeys(user) ==
    /\ calls' = calls + 1
    /\ mgmt' = [NoAnswer EXCEPT !.op = "list", !.user = user, !.status = 200,
                                !.keys = list_api_keys(user)]
    /\ UNCHANGED <<now, ticks, api_keys, usage, rate_requests, req, arrivals, regens, creates, probe>>

\* get_usage_stats for a key: the counts of its usage rows and its quota
\* (requests_this_month and most_used_endpoints are not modelled)
get_usage_stats(current_api_key) ==
    [total_requests |-> Cardinality({i \in 1..Len(usage) :
                                        usage[i].api_key_id = current_api_key.id}),
     quota_limit |-> current_api_key.quota_limit,
     quota_used |-> current_api_key.quota_used,
     quota_remaining |-> IF current_api_key.quota_limit > current_api_key.quota_used
                         THEN current_api_key.quota_limit - current_api_key.quota_used
                         ELSE 0,
     quota_reset_date |-> current_api_key.quota_reset_date]

\* create_api_key called by a user, up to the answer of its SELECT count:
\* with the limit reached the call fails with 400
MaxActiveKeys == 10

CreateCount(c, user, tier) ==
    /\ creates[c].pc = "idle"
    /\ \A d \in Callers : d < c => creates[d].pc # "idle"
    /\ calls' = calls + 1
    /\ LET active_key_count == Cardinality(ActiveKeysOf(user)) IN
       IF active_key_count >= MaxActiveKeys
       THEN /\ mgmt' = [NoAnswer EXCEPT !.op = "create", !.user = user, !.status = 400]
            /\ UNCHANGED creates
       ELSE /\ creates' = [creates EXCEPT ![c] = [pc |-> "counted", user |-> user,
                                                  tier |-> tier]]
            /\ UNCHANGED mgmt
    /\ UNCHANGED <<now, ticks, api_keys, usage, rate_requests, req, arrivals, regens, probe>>

\* (first a faulty variant of the insertion that gives every key the free
\* tier's quota_limit)
CreateInsert_freelimit(c) ==
    /\ creates[c].pc = "counted"
    /\ LET api_key == FreshSecrets[regens + 1]
           tier == creates[c].tier
           new_api_key ==
               [id |-> Len(api_keys) + 1, key_hash |-> hash_api_key(api_key, "s1"),
                tier |-> tier, quota_limit |-> 1000,
                quota_used |-> 0, quota_reset_date |-> calculate_quota_reset_date(now),
                is_active |-> TRUE, last_used |-> NoDate, user_id |-> creates[c].user]
       IN
       /\ api_keys' = Append(api_keys, new_api_key)
       /\ mgmt' = [NoAnswer EXCEPT !.op = "create", !.user = creates[c].user,
                                   !.key_id = new_api_key.id, !.status = 200,
                                   !.api_key = api_key,
                                   !.key_info = ApiKeyResponse(new_api_key)]
    /\ regens' = regens + 1
    /\ creates' = [creates EXCEPT ![c] = IdleCreate]
    /\ UNCHANGED <<now, ticks, usage, rate_requests, req, arrivals, calls, probe>>

\* create_api_key after the count: the secret is generated and hashed, and
\* the commit inserts the record
CreateInsert(c) ==
    /\ creates[c].pc = "counted"
    /\ LET api_key == FreshSecrets[regens + 1]
           tier == creates[c].tier
           new_api_key ==
               [id |-> Len(api_keys) + 1, key_hash |-> hash_api_key(api_key, "s1"),
                tier |-> tier, quota_limit |-> get_quota_limit_for_tier(tier),
                quota_used |-> 0, quota_reset_date |-> calculate_quota_reset_date(now),
                is_active |-> TRUE, last_used |-> NoDate, user_id |-> creates[c].user]
       IN
       /\ api_keys' = Append(api_keys, new_api_key)
       /\ mgmt' = [NoAnswer EXCEPT !.op = "create", !.user = creates[c].user,
                                   !.key_id = new_api_key.id, !.status = 200,
                                   !.api_key = api_key,
                                   !.key_info = ApiKeyResponse(new_api_key)]
    /\ regens' = regens + 1
    /\ creates' = [creates EXCEPT ![c] = IdleCreate]
    /\ UNCHANGED <<now, ticks, usage, rate_requests, req, arrivals, calls, probe>>

\* ------------------------------------------------------------------ clock
\* half an hour passes
Steps == {1800}

Tick(d) ==
    /\ ticks < MaxTicks
    /\ now' = now + d
    /\ ticks' = ticks + 1
    /\ UNCHANGED <<api_keys, usage, rate_requests, req, arrivals, regens, calls, mgmt, creates, probe>>

\* ---------------------------------------------------------- specification
Next ==
    \/ \E r \in Req, a \in Arrivals : Start(r, a.path, a.route, a.headers)
    \/ \E r \in Req : CheckQuota(r)
    \/ \E r \in Req : CheckRate(r)
    \/ \E r \in Req, result \in HandlerResults : App(r, result)
    \/ \E r \in Req : UpdateUsage(r)
    \/ calls < MaxMgmt /\ Regenerate(api_keys[1].user_id, 1)
    \/ calls < MaxMgmt /\ Deactivate(api_keys[1].user_id, 1)
    \/ \E d \in Steps : Tick(d)

Spec == Init /\ [][Next]_vars

\* One client that waits for each answer before it sends the next request:
\* a request arrives only when no other is in flight.  Key management and
\* the clock go on as before.
SeqStart(path, route, headers) ==
    /\ \A q \in Req : req[q].pc \in {"idle", "done"}
    /\ Start(1, path, route, headers)

SeqNext ==
    \/ \E a \in Arrivals : SeqStart(a.path, a.route, a.headers)
    \/ \E r \in Req : CheckQuota(r)
    \/ \E r \in Req : CheckRate(r)
    \/ \E r \in Req, result \in HandlerResults : App(r, result)
    \/ \E r \in Req : UpdateUsage(r)
    \/ calls < MaxMgmt /\ Regenerate(api_keys[1].user_id, 1)
    \/ calls < MaxMgmt /\ Deactivate(api_keys[1].user_id, 1)
    \/ \E d \in Steps : Tick(d)

SeqSpec == Init /\ [][SeqNext]_vars

\* ----------------------------------------------------------- database faults
\* The SELECT of _validate_api_key fails (database unavailable):
\* get_db_session rolls back and raises again, and __call__ has no handler
\* around the lookup, so the exception leaves the gateway.
LookupFails(r, path, route, headers) ==
    LET api_key == _extract_api_key(headers.x_api_key, headers.bearer)
        fresh == [IdleRequest EXCEPT !.id = arrivals + 1, !.path = path, !.route = route,
                                     !.api_key = api_key]
    IN
    /\ arrivals < MaxReq
    /\ \A q \in Req : req[q].pc \in {"idle", "done"}
    /\ r = 1
    /\ ~_is_public_endpoint(path)
    /\ api_key # NoKey
    /\ arrivals' = arrivals + 1
    /\ Set(r, Return([fresh EXCEPT !.response = ServerError, !.raised = TRUE]))
    /\ UNCHANGED <<now, ticks, api_keys, usage, rate_requests, regens, calls, mgmt, creates, probe>>

\* The INSERT of _record_usage fails after self.app has sent its response
\* through custom_send: the exception leaves _record_usage and __call__, and
\* _update_api_key_usage is never reached.
RecordFails(r, result) ==
    /\ req[r].pc = "app"
    /\ ~req[r].bypass
    /\ LET response == AppResponse(req[r], result) IN
       /\ response.by # "server"
       /\ Set(r, Return([req[r] EXCEPT !.response = response, !.ran = HandlerRan(req[r]),
                                        !.raised = TRUE]))
    /\ UNCHANGED <<now, ticks, api_keys, usage, rate_requests, arrivals, regens, calls, mgmt, creates, probe>>

\* One client, the requests of Arrivals, /health, and /v1/sightings behind
\* a Host header that ends the authority, and a database that may fail
\* during the lookup of the key and during the insertion of the usage row.
FaultArrivals == Arrivals \cup PublicArrivals \cup HostArrivals

FaultNext ==
    \/ \E a \in FaultArrivals : SeqStart(a.path, a.route, a.headers)
    \/ \E a \in FaultArrivals : LookupFails(1, a.path, a.route, a.headers)
    \/ \E r \in Req : CheckQuota(r)
    \/ \E r \in Req : CheckRate(r)
    \/ \E r \in Req, result \in HandlerResults : App(r, result)
    \/ \E r \in Req, result \in HandlerResults : RecordFails(r, result)
    \/ \E r \in Req : UpdateUsage(r)
    \/ calls < MaxMgmt /\ Regenerate(api_keys[1].user_id, 1)
    \/ calls < MaxMgmt /\ Deactivate(api_keys[1].user_id, 1)
    \/ \E d \in Steps : Tick(d)

FaultSpec == Init /\ [][FaultNext]_vars

\* ------------------------------------------------------------ key management
\* User 1 owns nine active keys, key 1 and keys 3 to 10, one below the limit
\* of create_api_key; key 2 is user 2's.
FillerKey(id) ==
    [id |-> id, key_hash |-> hash_api_key("f" \o ToString(id), "s1"), tier |-> "free",
     quota_limit |-> get_quota_limit_for_tier("free"), quota_used |-> 0,
     quota_reset_date |-> datetime(2024, 12, 1), is_active |-> TRUE, last_used |-> NoDate,
     user_id |-> 1]

KeyInit ==
    /\ now = StartClock
    /\ ticks = 0
    /\ api_keys = <<Key1(0, datetime(2024, 12, 1)), InitKey2>>
                      \o [i \in 1..(MaxActiveKeys - 2) |-> FillerKey(i + 2)]
    /\ rate_requests = [h \in Hashes |-> <<>>]
    /\ usage = <<>>
    /\ req = [r \in Req |-> IdleRequest]
    /\ arrivals = 0
    /\ regens = 0
    /\ calls = 0
    /\ mgmt = NoAnswer
    /\ creates = [c \in Callers |-> IdleCreate]
    /\ probe = NoProbe

\* the requests of one client: the first secret of key 1 and every secret
\* issued since, on a path the gateway processes and on /v1/sightings
KeyArrivals ==
    {[path |-> p.path, route |-> p.route, headers |-> [x_api_key |-> k, bearer |-> ""]] :
        p \in {[path |-> PathEmpty, route |-> PathStar],
               [path |-> PathSightings, route |-> PathSightings]},
        k \in PresentedKeys \ {NoKey, BadSecret}}

\* the keys that the calls of user 1 name: its own key 1, user 2's key 2,
\* and the key created first
KeyTargets == {1, 2, MaxActiveKeys + 1}

\* The clock stands still, so no period runs out and no request resets a
\* quota.
KeyNext ==
    \/ \E a \in KeyArrivals : SeqStart(a.path, a.route, a.headers)
    \/ \E r \in Req : CheckQuota(r)
    \/ \E r \in Req, result \in HandlerResults : App(r, result)
    \/ \E r \in Req : UpdateUsage(r)
    \/ \E c \in Callers : calls < MaxKeyOps /\ CreateCount(c, 1, "free")
    \/ \E c \in Callers : CreateInsert(c)
    \/ \E k \in KeyTargets : calls < MaxKeyOps /\ Regenerate(1, k)
    \/ \E k \in KeyTargets : calls < MaxKeyOps /\ Deactivate(1, k)
    \/ calls < MaxKeyOps /\ ListKeys(1)

KeySpec == KeyInit /\ [][KeyNext]_vars

\* ------------------------------------------------------- tier and key policy
\* The clock starts in the last half hour of November, at the start and in
\* the last second of December, at the start of January and of February
\* 2025, or in the middle of March 2025.
PolicyClocks ==
    {StartClock, 30 * DaySeconds, 61 * DaySeconds - 1, 61 * DaySeconds, 92 * DaySeconds,
     134 * DaySeconds + 43200}

\* the tiers that ApiKeyCreate.tier names: the four of the tables and one
\* that is in neither
Tiers == {"free", "basic", "pro", "enterprise"}
CreateTiers == Tiers \cup {"gold"}

\* Key 1 has used five requests of the period that ends on 2024-12-01.
PolicyInit ==
    /\ now \in PolicyClocks
    /\ ticks = 0
    /\ api_keys = <<Key1(5, datetime(2024, 12, 1)), InitKey2>>
    /\ rate_requests = [h \in Hashes |-> <<>>]
    /\ usage = <<>>
    /\ req = [r \in Req |-> IdleRequest]
    /\ arrivals = 0
    /\ regens = 0
    /\ calls = 0
    /\ mgmt = NoAnswer
    /\ creates = [c \in Callers |-> IdleCreate]
    /\ probe = NoProbe

\* the requests of one client with the secret of key 1 on a path the gateway
\* processes
PolicyArrivals ==
    {[path |-> PathEmpty, route |-> PathStar,
      headers |-> [x_api_key |-> InitSecrets[1], bearer |-> ""]]}

PolicyNext ==
    \/ \E a \in PolicyArrivals : SeqStart(a.path, a.route, a.headers)
    \/ \E r \in Req : CheckQuota(r)
    \/ \E r \in Req : CheckRate(r)
    \/ \E r \in Req, result \in HandlerResults : App(r, result)
    \/ \E r \in Req : UpdateUsage(r)
    \/ \E c \in Callers, tier \in CreateTiers : calls < MaxMgmt /\ CreateCount(c, 1, tier)
    \/ \E c \in Callers : CreateInsert(c)
    \/ \E d \in Steps : Tick(d)

PolicySpec == PolicyInit /\ [][PolicyNext]_vars

\* require_tier(required_tier) applied to the key that get_current_api_key
\* resolved: the 403 of its HTTPException, or the key (first a faulty variant
\* that ranks an unrecognized required tier lowest)
tier_hierarchy == [free |-> 0, basic |-> 1, pro |-> 2, enterprise |-> 3]

require_tier_open(required_tier, api_key) ==
    LET current_tier_level ==
            IF api_key.tier \in DOMAIN tier_hierarchy THEN tier_hierarchy[api_key.tier] ELSE 0
        required_tier_level ==
            IF required_tier \in DOMAIN tier_hierarchy THEN tier_hierarchy[required_tier] ELSE 0
    IN
    IF current_tier_level < required_tier_level
    THEN [status |-> 403,
          detail |-> "This endpoint requires " \o required_tier
                        \o " tier or higher. Current tier: " \o api_key.tier,
          key |-> NoInfo]
    ELSE [status |-> 200, detail |-> "", key |-> api_key]

require_tier(required_tier, api_key) ==
    LET current_tier_level ==
            IF api_key.tier \in DOMAIN tier_hierarchy THEN tier_hierarchy[api_key.tier] ELSE 0
        required_tier_level ==
            IF required_tier \in DOMAIN tier_hierarchy THEN tier_hierarchy[required_tier] ELSE 3
    IN
    IF current_tier_level < required_tier_level
    THEN [status |-> 403,
          detail |-> "This endpoint requires " \o required_tier
                        \o " tier or higher. Current tier: " \o api_key.tier,
          key |-> NoInfo]
    ELSE [status |-> 200, detail |-> "", key |-> api_key]

\* the tiers an endpoint may require, one of them unrecognized, and the keys
\* a request may have resolved to: key 1 with any tier name
RequiredTiers == Tiers \cup {"platinum"}
ResolvedKeys == {[api_keys[1] EXCEPT !.tier = t] : t \in CreateTiers}

RequireTier(required_tier, api_key) ==
    /\ probe' = [fn |-> "require_tier", required_tier |-> required_tier, api_key |-> api_key,
                 result |-> require_tier(required_tier, api_key)]
    /\ UNCHANGED <<now, ticks, api_keys, usage, rate_requests, req, arrivals, regens, calls,
                   mgmt, creates>>

\* the tier names the two lookups are called with: the four of the tables,
\* other spellings of them, the empty name and a name of no table
LookupTiers == Tiers \cup {"gold", "", "Free", "ENTERPRISE"}

TierLimits(tier) ==
    /\ probe' = [fn |-> "tier_limits", tier |-> tier,
                 quota |-> get_quota_limit_for_tier(tier),
                 rate |-> get_rate_limit_for_tier(tier)]
    /\ UNCHANGED <<now, ticks, api_keys, usage, rate_requests, req, arrivals, regens, calls,
                   mgmt, creates>>

\* verify_api_key on a presented string and the stored hash of a generated
\* secret, or a stored value that is no hash
GeneratedSecrets == {generate_api_key(h) : h \in RandomHex}
PresentedSecrets ==
    GeneratedSecrets \cup {k \o "0" : k \in GeneratedSecrets}
        \cup {SubSeq(k, 1, Len(k) - 1) : k \in GeneratedSecrets}
        \cup {"wrong_key", NoKey}

VerifyKey(api_key, secret, hashed_key) ==
    /\ probe' = [fn |-> "verify_api_key", api_key |-> api_key, secret |-> secret,
                 hashed_key |-> hashed_key,
                 result |-> verify_api_key(api_key, hashed_key)]
    /\ UNCHANGED <<now, ticks, api_keys, usage, rate_requests, req, arrivals, regens, calls,
                   mgmt, creates>>

\* RateLimiter.is_allowed on a limiter that holds the deques of two key
\* hashes.  A deque holds the times of earlier calls in the order they were
\* made: more than an hour ago, exactly an hour ago, or a second ago.
LimiterKeys == {"h1", "h2"}
MaxWindow == 3
SmallLimits == 1..3
PastTimes(t) == {t - RateWindow - 1, t - RateWindow, t - 1}
Windows(t) ==
    {w \in UNION {[1..n -> PastTimes(t)] : n \in 0..MaxWindow} :
        \A i \in 1..(Len(w) - 1) : w[i] <= w[i + 1]}

IsAllowed(requests, api_key_hash, rate_limit) ==
    /\ LET res == is_allowed(requests[api_key_hash], rate_limit, now) IN
       probe' = [fn |-> "is_allowed", before |-> requests, api_key_hash |-> api_key_hash,
                 rate_limit |-> rate_limit, t |-> now, allowed |-> res.allowed,
                 after |-> [requests EXCEPT ![api_key_hash] = res.requests]]
    /\ UNCHANGED <<now, ticks, api_keys, usage, rate_requests, req, arrivals, regens, calls,
                   mgmt, creates>>

\* The functions of the policy, called on inputs drawn from bounded sets:
\* each behaviour makes one call.
FunctionNext ==
    \/ probe = NoProbe
          /\ \E requests \in [LimiterKeys -> Windows(now)], h \in LimiterKeys,
                l \in SmallLimits : IsAllowed(requests, h, l)
    \/ probe = NoProbe
          /\ \E w \in PresentedSecrets, k \in GeneratedSecrets, salt \in Salts :
                VerifyKey(w, k, hash_api_key(k, salt))
    \/ probe = NoProbe /\ \E w \in PresentedSecrets : VerifyKey(w, NoKey, MalformedHash)
    \/ probe = NoProbe /\ \E t \in RequiredTiers, k \in ResolvedKeys : RequireTier(t, k)
    \/ probe = NoProbe /\ \E t \in LookupTiers : TierLimits(t)

FunctionSpec == PolicyInit /\ [][FunctionNext]_vars

\* ------------------------------------------------- vocabulary of the claims
\* the Usage Records written for the request with this id
RowsOf(id) == {i \in 1..Len(usage) : usage[i].req = id}

\* the request in slot r has just returned in this step
Finishes(r) ==
    /\ req'[r].pc = "done"
    /\ req[r].pc # "done" \/ req[r].id # req'[r].id

\* the gateway itself answered the request
RejectedByGateway(q) == q.pc = "done" /\ q.response.by = "gateway"

\* the request passed authentication, quota and rate limit and went on to
\* the downstream application
Admitted(q) ==
    /\ ~q.bypass
    /\ q.pc \in {"app", "update"} \/ (q.pc = "done" /\ q.response.by # "gateway")

\* d is midnight on the first day of the month after the month of n
MonthAfter(d, n) ==
    /\ d.day = 1
    /\ d.sec = 0
    /\ d.month \in 1..12
    /\ 12 * d.year + d.month = 12 * n.year + n.month + 1

\* the timestamps of a window that lie within the hour that ends at t
WithinHour(requests, t) == SelectSeq(requests, LAMBDA x : x >= t - RateWindow)

\* the quota failure answered for a key record
QuotaFailure(row) ==
    [by |-> "gateway", status |-> 429, error |-> "quota_exceeded",
     message |-> MsgQuota(row.quota_limit),
     details |-> [NoDetails EXCEPT !.quota_limit = row.quota_limit,
                                   !.quota_used = row.quota_used,
                                   !.quota_reset_date = row.quota_reset_date]]

\* ----------------------------------------------------------------- claims
\* C1: for a request that the gateway processes and admits, once the
\* downstream application has produced a response (of any status) exactly one
\* Usage Record for that request is appended, carrying the response status,
\* and then the key's quota_used is incremented by exactly one and last_used
\* is set to the time of the increment; the finished request has exactly one
\* Usage Record and one increment.
C1_OneRecordOneIncrement ==
    [][\A r \in Req :
         LET q == req[r]
             p == req'[r]
             k == q.info.id
         IN
         /\ (q.pc = "app" /\ ~q.bypass /\ p.pc # "app" /\ p.response.by = "app")
               => /\ p.pc = "update"
                  /\ RowsOf(q.id) = {}
                  /\ usage' = Append(usage, [api_key_id |-> k, endpoint |-> q.path,
                                             response_status |-> p.response.status,
                                             req |-> q.id])
                  /\ api_keys' = api_keys
         /\ (q.pc = "update" /\ p.pc # "update")
               => /\ p.pc = "done"
                  /\ p.id = q.id
                  /\ p.charged /\ ~q.charged
                  /\ Cardinality(RowsOf(q.id)) = 1
                  /\ usage' = usage
                  /\ api_keys'[k].quota_used = api_keys[k].quota_used + 1
                  /\ api_keys'[k].last_used = utcnow(now)
         /\ (Finishes(r) /\ ~p.bypass /\ p.response.by = "app")
               => /\ p.charged
                  /\ Cardinality({i \in 1..Len(usage') : usage'[i].req = p.id}) = 1
      ]_vars

\* C1, the case: an admitted request that the application answered 404 has
\* returned with its one Usage Record, and the key stands one above the
\* quota_used the gateway read for it.
C1_Charged ==
    \E r \in Req :
        /\ req[r].pc = "done"
        /\ Admitted(req[r])
        /\ req[r].response.by = "app"
        /\ req[r].response.status = 404
        /\ req[r].charged
        /\ \E i \in RowsOf(req[r].id) : usage[i].response_status = 404
        /\ api_keys[req[r].info.id].quota_used = req[r].info.quota_used + 1
        /\ api_keys[req[r].info.id].last_used # NoDate

\* C2: every rate-limit check is one step on the window of the presented
\* key's hash: with L the hourly limit of the key's tier, the check is allowed
\* exactly when fewer than L allowed timestamps lie within the hour that ends
\* now (a window that holds L is a rejection with 429 rate_limit_exceeded),
\* an allowed check appends its timestamp and a rejected one appends nothing,
\* no other window changes, nothing but a check changes a window, and so no
\* window ever holds more than L timestamps of one hour.
C2_FirstLAllowed ==
    [][/\ \A r \in Req :
            LET q == req[r]
                p == req'[r]
                h == q.info.key_hash
                L == get_rate_limit_for_tier(q.info.tier)
                inHour == WithinHour(rate_requests[h], now)
                checked == /\ q.pc \in {"quota", "rate"}
                           /\ p.pc # q.pc
                           /\ p.pc = "app" \/ p.response.error = "rate_limit_exceeded"
            IN
            checked =>
                /\ p.pc = "app" <=> Len(inHour) < L
                /\ p.pc # "app" => /\ p.pc = "done"
                                   /\ p.response.by = "gateway"
                                   /\ p.response.status = 429
                                   /\ p.response.details.rate_limit = L
                                   /\ p.response.details.retry_after = 3600
                /\ rate_requests'[h] = IF Len(inHour) < L THEN Append(inHour, now) ELSE inHour
                /\ Len(rate_requests'[h]) <= L
                /\ \A i \in 1..Len(rate_requests'[h]) : rate_requests'[h][i] >= now - RateWindow
                /\ \A g \in Hashes \ {h} : rate_requests'[g] = rate_requests[g]
       /\ rate_requests' # rate_requests
            => \E r \in Req : /\ req[r].pc \in {"quota", "rate"}
                              /\ req'[r].pc # req[r].pc
                              /\ req'[r].pc = "app"
                                    \/ req'[r].response.error = "rate_limit_exceeded"
      ]_vars

\* C2, the case: of two requests in flight with the same key, one took the
\* last place of the window and the other was rejected at the full window.
C2_LimitReached ==
    \E r1, r2 \in Req :
        /\ r1 # r2
        /\ req[r1].info.id = req[r2].info.id
        /\ RejectedByGateway(req[r1])
        /\ req[r1].response.error = "rate_limit_exceeded"
        /\ Admitted(req[r2])
        /\ req[r2].id < req[r1].id
        /\ Len(rate_requests[req[r1].info.key_hash])
              = get_rate_limit_for_tier(req[r1].info.tier)

\* C3: the quota is a cap on accepted requests: the requests charged to a
\* key in its period (quota_used) together with the requests admitted for it
\* that are still to be charged never exceed quota_limit.
C3_QuotaIsCap ==
    \A k \in DOMAIN api_keys :
        api_keys[k].quota_used
            + Cardinality({r \in Req : /\ req[r].pc \in {"app", "update"}
                                       /\ ~req[r].bypass
                                       /\ req[r].info.id = k})
          <= api_keys[k].quota_limit

\* C3, the case: two requests that both read quota_used one below the limit
\* have both been admitted and charged, and the key stands above its limit.
C3_OverQuota ==
    \E k \in DOMAIN api_keys :
        /\ api_keys[k].quota_used > api_keys[k].quota_limit
        /\ \E r1, r2 \in Req :
              /\ r1 # r2
              /\ req[r1].charged /\ req[r2].charged
              /\ req[r1].info.id = k /\ req[r2].info.id = k
              /\ req[r1].info.quota_used = req[r2].info.quota_used

\* C4 as stated: a request that the gateway rejects at one of its own checks
\* never invoked the handler, has no Usage Record, and has changed nothing of
\* its key: it was not charged and it did not reset quota_used.
C4_RejectedLeavesKey ==
    \A r \in Req :
        RejectedByGateway(req[r]) =>
            /\ ~req[r].ran
            /\ RowsOf(req[r].id) = {}
            /\ ~req[r].charged
            /\ ~req[r].did_reset

\* C4, amended: a request that the gateway rejects never invokes the
\* handler, has no Usage Record and is never charged (quota_used is not
\* incremented, last_used is not set), and the step that rejects it changes
\* no key record and no Usage Record.  The one change a rejected request can
\* have made to its key is the monthly reset: the quota check of a key whose
\* reset date has passed sets quota_used to 0 and moves quota_reset_date to
\* the first of the next month, leaving the rest of the record alone, before
\* the rate limit rejects the request.
C4_RejectedChargesNothing ==
    [][\A r \in Req :
         LET q == req[r]
             p == req'[r]
             k == q.info.id
         IN
         /\ (Finishes(r) /\ p.response.by = "gateway")
               => /\ api_keys' = api_keys
                  /\ usage' = usage
                  /\ ~p.ran
                  /\ ~p.charged
                  /\ \A i \in 1..Len(usage') : usage'[i].req # p.id
                  /\ p.did_reset => p.response.error = "rate_limit_exceeded"
         /\ (q.pc = "quota" /\ p.pc = "rate")
               => /\ DtGE(utcnow(now), q.info.quota_reset_date)
                  /\ p.did_reset
                  /\ usage' = usage
                  /\ \A j \in DOMAIN api_keys : j # k => api_keys'[j] = api_keys[j]
                  /\ api_keys'[k].quota_used = 0
                  /\ MonthAfter(api_keys'[k].quota_reset_date, utcnow(now))
                  /\ api_keys'[k] = [api_keys[k] EXCEPT
                                        !.quota_used = 0,
                                        !.quota_reset_date = api_keys'[k].quota_reset_date]
         /\ (p.did_reset /\ p.pc # "idle")
               => (q.pc = "quota" /\ p.pc = "rate") \/ (q.did_reset /\ q.id = p.id)
      ]_vars

\* C4, the case: a request for a key whose period had run out was rejected at
\* the rate limit after its quota check had reset quota_used from the value
\* the gateway read to 0.
C4_ResetThenRateLimited ==
    \E r \in Req :
        /\ RejectedByGateway(req[r])
        /\ req[r].response.error = "rate_limit_exceeded"
        /\ req[r].did_reset
        /\ req[r].info.quota_used > 0
        /\ api_keys[req[r].info.id].quota_used = 0
        /\ RowsOf(req[r].id) = {}

\* C5: a request to /v1/sightings is never passed through the public-path
\* bypass; without a key the gateway answers it 401 authentication_error
\* "API key required...", and with a key that matches no active record the
\* gateway answers it 401 authentication_error "...invalid or has been
\* revoked."
C5_SightingsNotBypassed ==
    \A r \in Req :
        (req[r].pc # "idle" /\ req[r].path = PathSightings) =>
            /\ ~req[r].bypass
            /\ (req[r].pc = "done" /\ req[r].api_key = NoKey)
                  => req[r].response
                       = create_error_response("authentication_error", MsgKeyRequired, 401,
                                               NoDetails)
            /\ (req[r].pc = "done" /\ req[r].api_key = BadSecret)
                  => req[r].response
                       = create_error_response("authentication_error", MsgInvalid, 401,
                                               NoDetails)

\* C5, the case: a request to /v1/sightings with a key that was never issued
\* went through the bypass and was answered by the key dependency of the
\* application, not by the gateway.
C5_BadKeyBypassed ==
    \E r \in Req :
        /\ req[r].pc = "done"
        /\ req[r].path = PathSightings
        /\ req[r].api_key = BadSecret
        /\ req[r].bypass
        /\ req[r].response.by = "app"
        /\ req[r].response.status = 401
        /\ req[r].response.message = "API key required"

\* C6: a request to /v1/sightings that presents the secret of an active key
\* within its quota and its hourly limit is admitted: when it has returned,
\* the handler has run and the answer is not 401.
C6_ValidKeyAdmitted ==
    \A r \in Req :
        LET q == req[r] IN
        (/\ q.pc = "done"
         /\ q.path = PathSightings
         /\ \E k \in DOMAIN api_keys :
               /\ api_keys[k].is_active
               /\ verify_api_key(q.api_key, api_keys[k].key_hash)
               /\ api_keys[k].quota_used < api_keys[k].quota_limit
               /\ ~DtGE(utcnow(now), api_keys[k].quota_reset_date)
               /\ Len(WithinHour(rate_requests[api_keys[k].key_hash], now))
                     < get_rate_limit_for_tier(api_keys[k].tier))
            => /\ q.ran
               /\ q.response.status # 401

\* C6, the case: a request to /v1/sightings with the secret of the active
\* key 1 was answered 401 by the key dependency, the handler did not run,
\* and the key and its window are as they were.
C6_ValidKeyRefused ==
    \E r \in Req :
        /\ req[r].pc = "done"
        /\ req[r].path = PathSightings
        /\ api_keys[1].is_active
        /\ verify_api_key(req[r].api_key, api_keys[1].key_hash)
        /\ api_keys[1].quota_used < api_keys[1].quota_limit
        /\ req[r].response.status = 401
        /\ ~req[r].ran
        /\ req[r].info = NoInfo

\* C7: every change of a key's quota_used is either an increase by exactly
\* one, made for one admitted request that the downstream application has
\* answered (it has its Usage Record), or the reset to 0 made by the quota
\* check of a request whose key's period had run out, which also moves
\* quota_reset_date to the first of the next month; no other step (a
\* regeneration, a deactivation, a rejection, a public request, the clock)
\* changes it.
C7_OnlyChargeOrReset ==
    [][\A k \in DOMAIN api_keys :
         api_keys'[k].quota_used # api_keys[k].quota_used =>
            \/ /\ api_keys'[k].quota_used = api_keys[k].quota_used + 1
               /\ \E r \in Req :
                     /\ req[r].pc = "update" /\ req'[r].pc = "done"
                     /\ req[r].info.id = k
                     /\ ~req[r].bypass
                     /\ req[r].response.by = "app"
                     /\ Cardinality(RowsOf(req[r].id)) = 1
               /\ mgmt' = mgmt
            \/ /\ api_keys'[k].quota_used = 0
               /\ \E r \in Req :
                     /\ req[r].pc = "quota" /\ req'[r].pc = "rate"
                     /\ req[r].info.id = k
                     /\ DtGE(utcnow(now), req[r].info.quota_reset_date)
               /\ MonthAfter(api_keys'[k].quota_reset_date, utcnow(now))
               /\ mgmt' = mgmt
      ]_vars

\* C7, the case: after a key-management call, a request has reset the
\* quota_used of key 1 from the limit to 0 and then charged it to 1.
C7_ResetAndCharge ==
    \E r \in Req :
        /\ calls > 0
        /\ mgmt.status = 200
        /\ req[r].pc = "done"
        /\ req[r].did_reset
        /\ req[r].charged
        /\ req[r].info.quota_used = req[r].info.quota_limit
        /\ api_keys[req[r].info.id].quota_used = 1

C9_ExpiredKeyAdmitted ==
    [][\A r \in Req :
         LET q == req[r]
             p == req'[r]
             k == q.info.id
         IN
         /\ (q.pc = "quota" /\ p.pc # "quota"
                /\ DtGE(utcnow(now), api_keys[k].quota_reset_date))
               => /\ p.pc = "rate"
                  /\ api_keys'[k].quota_used = 0
                  /\ MonthAfter(api_keys'[k].quota_reset_date, utcnow(now))
         /\ (q.pc = "rate" /\ p.pc # "rate")
               => /\ q.did_reset
                  /\ p.pc = "app" \/ p.response.error = "rate_limit_exceeded"
                  /\ api_keys' = api_keys
         /\ (q.pc = "update" /\ q.did_reset /\ p.pc # "update")
               => /\ p.pc = "done"
                  /\ api_keys'[k].quota_used = 1
                  /\ api_keys'[k].quota_reset_date = api_keys[k].quota_reset_date
                  /\ ~DtGE(q.info.quota_reset_date, api_keys[k].quota_reset_date)
         /\ (\A j \in DOMAIN api_keys :
                api_keys'[j].quota_reset_date # api_keys[j].quota_reset_date
                   => \E x \in Req : req[x].pc = "quota" /\ req'[x].pc = "rate"
                                        /\ req[x].info.id = j)
      ]_vars

\* C9, the case: key 1, exhausted and with its reset date in October, got a
\* request in November: the request was admitted and has completed, and the
\* key stands at quota_used 1 with the reset date 2024-12-01.
C9_LateReset ==
    \E r \in Req :
        /\ req[r].pc = "done"
        /\ req[r].did_reset
        /\ req[r].charged
        /\ req[r].response.by = "app"
        /\ req[r].info.quota_used >= req[r].info.quota_limit
        /\ req[r].info.quota_reset_date = datetime(2024, 10, 1)
        /\ api_keys[req[r].info.id].quota_used = 1
        /\ api_keys[req[r].info.id].quota_reset_date = datetime(2024, 12, 1)

\* C10: when the requests of a key come one after another, the quota check
\* of a request whose key is within its period passes exactly when quota_used
\* is below quota_limit; otherwise the request is answered 429 quota_exceeded
\* with the key's quota_limit, quota_used and quota_reset_date as details and
\* nothing is written.  A request that completes raises quota_used by one, so
\* from one below the limit one request brings it to the limit and the next
\* is rejected.
C10_QuotaDecision ==
    [][\A r \in Req :
         LET q == req[r]
             p == req'[r]
             k == q.info.id
         IN
         /\ (q.pc = "quota" /\ p.pc # "quota"
                /\ ~DtGE(utcnow(now), api_keys[k].quota_reset_date))
               => /\ api_keys' = api_keys
                  /\ usage' = usage
                  /\ IF api_keys[k].quota_used < api_keys[k].quota_limit
                     THEN p.pc = "app" \/ p.response.error = "rate_limit_exceeded"
                     ELSE /\ p.pc = "done"
                          /\ p.response = QuotaFailure(api_keys[k])
                          /\ rate_requests' = rate_requests
         /\ (q.pc = "update" /\ p.pc # "update")
               => api_keys'[k].quota_used = api_keys[k].quota_used + 1
      ]_vars

\* C10, the case: with key 1 one below its limit, one request was admitted
\* and charged, and the next was answered 429 quota_exceeded with quota_used
\* equal to quota_limit and the reset date 2024-12-01 in its details.
C10_RejectedAtLimit ==
    \E r \in Req :
        /\ RejectedByGateway(req[r])
        /\ req[r].response.status = 429
        /\ req[r].response.error = "quota_exceeded"
        /\ req[r].response.details.quota_used = req[r].response.details.quota_limit
        /\ req[r].response.details.quota_limit = get_quota_limit_for_tier("free")
        /\ req[r].response.details.quota_reset_date = datetime(2024, 12, 1)
        /\ \E i \in 1..Len(usage) : /\ usage[i].api_key_id = req[r].info.id
                                    /\ usage[i].req < req[r].id

\* C11: the gateway checks authentication, then quota, then rate limit, and
\* stops at the first failure.  An authentication failure is answered when
\* the request starts, before any key or window is touched; a request whose
\* key record, as the gateway read it, is within its period with quota_used
\* at or above quota_limit is answered quota_exceeded whatever its window
\* holds, and that step leaves every rate-limit window unchanged; a request
\* is answered rate_limit_exceeded only after its quota check has passed.
C11_QuotaBeforeRate ==
    [][\A r \in Req :
         LET q == req[r]
             p == req'[r]
             within == ~DtGE(utcnow(now), q.info.quota_reset_date)
         IN
         /\ (Finishes(r) /\ p.response.by = "gateway" /\ p.response.status = 401)
               => /\ q.pc \in {"idle", "done"}
                  /\ p.info = NoInfo
                  /\ rate_requests' = rate_requests
                  /\ api_keys' = api_keys
         /\ (q.pc = "quota" /\ p.pc # "quota" /\ within
                /\ q.info.quota_used >= q.info.quota_limit)
               => /\ p.pc = "done"
                  /\ p.response.status = 429
                  /\ p.response.error = "quota_exceeded"
         /\ (Finishes(r) /\ p.response.error = "quota_exceeded")
               => /\ q.pc = "quota"
                  /\ rate_requests' = rate_requests
         /\ (Finishes(r) /\ p.response.error = "rate_limit_exceeded")
               => \/ q.pc = "rate" /\ q.did_reset
                  \/ /\ q.pc = "quota"
                     /\ within
                     /\ q.info.quota_used < q.info.quota_limit
      ]_vars

\* C11, the case: a request for key 1, which stands at its quota_limit and
\* has a full hour's window, was answered quota_exceeded, and the window
\* still holds its 60 timestamps.
C11_BothExhausted ==
    \E r \in Req :
        /\ RejectedByGateway(req[r])
        /\ req[r].response.error = "quota_exceeded"
        /\ req[r].info.quota_used >= req[r].info.quota_limit
        /\ Len(WithinHour(rate_requests[req[r].info.key_hash], now))
              = get_rate_limit_for_tier(req[r].info.tier)

\* C12: a request to the allowlisted path /health is passed through to the
\* handler whether it carries no key, an unknown key or a valid key: the
\* gateway looks no record up for it, and no step of the request writes a
\* Usage Record, changes any key record (quota_used, last_used) or changes
\* any rate-limit window; the handler is invoked and the answer is the
\* application's, never the gateway's.
C12_PublicPassThrough ==
    [][\A r \in Req :
         LET q == req[r]
             p == req'[r]
         IN
         (p # q /\ p.path = PathHealth) =>
             /\ p.info = NoInfo
             /\ p.state_api_key = NoInfo
             /\ p.response.by # "gateway"
             /\ p.pc \in {"app", "done"}
             /\ p.pc = "done" => p.ran
             /\ ~p.charged /\ ~p.did_reset
             /\ usage' = usage
             /\ api_keys' = api_keys
             /\ rate_requests' = rate_requests
      ]_vars

\* C12, the case: a /health request that carried the valid secret of an
\* active key has been answered 200 by the handler.
C12_HealthWithKey ==
    \E r \in Req :
        /\ req[r].pc = "done"
        /\ req[r].path = PathHealth
        /\ ActiveMatches(req[r].api_key) # {}
        /\ req[r].ran
        /\ req[r].response.status = 200

\* C13: when the handler of an admitted request ends by raising an error
\* instead of returning a response, the gateway still appends a Usage Record
\* for the request and still increments the key's quota_used: a finished
\* request that the gateway admitted and whose handler raised has a Usage
\* Record and has been charged.
C13_RaisedStillCharged ==
    \A r \in Req :
        (/\ req[r].pc = "done"
         /\ ~req[r].bypass
         /\ req[r].info # NoInfo
         /\ req[r].ran
         /\ req[r].response.by = "server")
            => /\ RowsOf(req[r].id) # {}
               /\ req[r].charged

\* C13, the case: a request with the valid secret of key 1 was admitted, its
\* handler raised, and the request is finished with no Usage Record and no
\* increment of quota_used.
C13_RaisedUncharged ==
    \E r \in Req :
        /\ req[r].pc = "done"
        /\ ~req[r].bypass
        /\ req[r].info # NoInfo
        /\ req[r].ran
        /\ req[r].raised
        /\ req[r].response.by = "server"
        /\ RowsOf(req[r].id) = {}
        /\ ~req[r].charged

\* C14: a failure while writing the Usage Record of an admitted request is
\* swallowed by the gateway: a finished request that was admitted and
\* answered by the application but has no Usage Record (its write failed)
\* has left the gateway without an exception, keeps the application's
\* response and has had quota_used incremented.
C14_WriteFailureSwallowed ==
    \A r \in Req :
        (/\ req[r].pc = "done"
         /\ ~req[r].bypass
         /\ req[r].info # NoInfo
         /\ req[r].response.by = "app"
         /\ RowsOf(req[r].id) = {})
            => /\ ~req[r].raised
               /\ req[r].charged

\* C14, the case: the handler of an admitted request answered 200, the
\* insertion of the Usage Record failed, and the request is finished with the
\* exception raised out of the gateway and quota_used not incremented.
C14_WriteFailureEscapes ==
    \E r \in Req :
        /\ req[r].pc = "done"
        /\ ~req[r].bypass
        /\ req[r].info # NoInfo
        /\ req[r].ran
        /\ req[r].response.by = "app"
        /\ req[r].response.status = 200
        /\ RowsOf(req[r].id) = {}
        /\ req[r].raised
        /\ ~req[r].charged
        /\ api_keys[req[r].info.id].quota_used = req[r].info.quota_used

\* C15: the gateway fails closed: a request that presented a key on a path
\* the gateway processes and whose key was not resolved to a record, the
\* lookup having found none or having failed, is answered 401
\* authentication_error by the gateway, its handler is not invoked, and it
\* has no Usage Record and no quota increment.
C15_FailsClosedAs401 ==
    \A r \in Req :
        (/\ req[r].pc = "done"
         /\ ~req[r].bypass
         /\ req[r].api_key # NoKey
         /\ req[r].info = NoInfo)
            => /\ req[r].response.by = "gateway"
               /\ req[r].response.status = 401
               /\ req[r].response.error = "authentication_error"
               /\ ~req[r].ran
               /\ RowsOf(req[r].id) = {}
               /\ ~req[r].charged

\* C15, the case: the lookup failed for a request that presented the valid
\* secret of an active key; the exception left the gateway and the request
\* was answered 500, with the handler not invoked and nothing recorded.
C15_LookupErrorIs500 ==
    \E r \in Req :
        /\ req[r].pc = "done"
        /\ ~req[r].bypass
        /\ ActiveMatches(req[r].api_key) # {}
        /\ req[r].info = NoInfo
        /\ req[r].raised
        /\ req[r].response = ServerError
        /\ ~req[r].ran
        /\ RowsOf(req[r].id) = {}

\* C16: a request that the gateway processes and that presents the secret of
\* a key record that exists but has is_active = false is rejected with 401
\* authentication_error carrying the "disabled" message, which differs from
\* the message given for a key that matches no record.
C16_InactiveSaysDisabled ==
    [][\A r \in Req :
         LET p == req'[r] IN
         (/\ p.id # req[r].id
          /\ ~p.bypass
          /\ \E i \in DOMAIN api_keys :
                /\ ~api_keys[i].is_active
                /\ verify_api_key(p.api_key, api_keys[i].key_hash))
             => /\ p.pc = "done"
                /\ p.response.by = "gateway"
                /\ p.response.status = 401
                /\ p.response.error = "authentication_error"
                /\ p.response.message = MsgDisabled
                /\ MsgDisabled # MsgInvalid
      ]_vars

\* C16, the case: key 1 has been deactivated, and a request presenting its
\* secret was rejected with the message given for a key that matches no
\* record.
C16_InactiveSaysInvalid ==
    \E r \in Req :
        /\ RejectedByGateway(req[r])
        /\ ~api_keys[1].is_active
        /\ verify_api_key(req[r].api_key, api_keys[1].key_hash)
        /\ req[r].response.status = 401
        /\ req[r].response.message = MsgInvalid

\* C17: deactivation is permanent and effective.  A deactivate_api_key call
\* that succeeds leaves its key with is_active = false; no step ever sets
\* is_active of an inactive key back to true; the owner's key list never
\* shows an inactive key; and a request that starts while the record of the
\* secret it presents is inactive resolves to no record, is answered 401 (by
\* the gateway on the paths it processes, by the key dependency of the route
\* on /v1/sightings), never has its handler invoked, writes no Usage Record
\* and charges no quota.
C17_DeactivationPermanent ==
    [][/\ \A i \in DOMAIN api_keys :
            ~api_keys[i].is_active => ~api_keys'[i].is_active
       /\ (calls' # calls /\ mgmt'.op = "deactivate" /\ mgmt'.status = 200)
            => ~api_keys'[mgmt'.key_id].is_active
       /\ (calls' # calls /\ mgmt'.op = "list")
            => \A j \in DOMAIN mgmt'.keys :
                  /\ mgmt'.keys[j].is_active
                  /\ api_keys[mgmt'.keys[j].id].is_active
       /\ \A r \in Req :
            LET q == req[r]
                p == req'[r]
                inactive == \E i \in DOMAIN api_keys :
                               /\ ~api_keys[i].is_active
                               /\ verify_api_key(p.api_key, api_keys[i].key_hash)
            IN
            /\ (p.id # q.id /\ inactive)
                 => /\ p.info = NoInfo
                    /\ p.state_api_key = NoInfo
                    /\ ~p.bypass => /\ p.pc = "done"
                                    /\ p.response.by = "gateway"
                                    /\ p.response.status = 401
            /\ (Finishes(r) /\ p.info = NoInfo /\ inactive)
                 => /\ p.response.status = 401
                    /\ ~p.ran
                    /\ ~p.charged
                    /\ usage' = usage
                    /\ api_keys' = api_keys
      ]_vars

\* C17, the case: key 1 has been deactivated, a regenerate_api_key call for
\* it has since been answered 404, and a request presenting its secret was
\* refused with 401 without its handler being invoked.
C17_DeactivatedKeyRefused ==
    /\ ~api_keys[1].is_active
    /\ mgmt.op = "regenerate" /\ mgmt.key_id = 1 /\ mgmt.status = 404
    /\ \E r \in Req :
          /\ req[r].pc = "done"
          /\ verify_api_key(req[r].api_key, api_keys[1].key_hash)
          /\ req[r].info = NoInfo
          /\ req[r].response.status = 401
          /\ ~req[r].ran
          /\ RowsOf(req[r].id) = {}

\* C18: after any sequence and interleaving of key creations and
\* deactivations by one user, the user never has more than 10 active keys,
\* and a create_api_key call answered 400 has added no key record.
C18_AtMostTenActive ==
    /\ \A u \in {1, 2} : Cardinality(ActiveKeysOf(u)) <= MaxActiveKeys
    /\ (mgmt.op = "create" /\ mgmt.status = 400) => mgmt.key_id = 0

\* C18, the case: two create_api_key calls of user 1, who had nine active
\* keys, were in flight together, both were answered 200, and user 1 has
\* eleven active keys.
C18_ElevenActive ==
    /\ Cardinality(ActiveKeysOf(1)) = MaxActiveKeys + 1
    /\ mgmt.op = "create"
    /\ mgmt.status = 200
    /\ \A c \in Callers : creates[c].pc = "idle"

\* the secrets that have been issued so far
IssuedSecrets ==
    {InitSecrets[i] : i \in 1..Len(InitSecrets)} \cup {FreshSecrets[i] : i \in 1..regens}

\* C19: regenerate_api_key on an active key owned by the caller replaces
\* key_hash with the hash of a fresh secret, which it returns, sets last_used
\* to null and leaves tier, quota_limit, quota_used, quota_reset_date,
\* is_active, every other key record and the Usage Records unchanged.  From
\* then on the old secret authenticates nowhere: a secret that verifies
\* against no record never does again, and a request that presents it on a
\* path the gateway processes is answered 401; a request that presents the
\* new secret resolves to the same record.
C19_RegenerateFrame ==
    [][/\ (regens' # regens /\ DOMAIN api_keys' = DOMAIN api_keys)
            => LET k == mgmt'.key_id
                   s == mgmt'.api_key
                   old == api_keys[k]
                   new == api_keys'[k]
               IN
               /\ mgmt'.op = "regenerate" /\ mgmt'.status = 200
               /\ old.is_active /\ old.user_id = mgmt'.user
               /\ \A i \in DOMAIN api_keys : ~verify_api_key(s, api_keys[i].key_hash)
               /\ verify_api_key(s, new.key_hash)
               /\ new.key_hash # old.key_hash
               /\ new.last_used = NoDate
               /\ new = [old EXCEPT !.key_hash = new.key_hash, !.last_used = NoDate]
               /\ \A i \in DOMAIN api_keys : i # k => api_keys'[i] = api_keys[i]
               /\ usage' = usage
               /\ \A x \in IssuedSecrets :
                     verify_api_key(x, old.key_hash)
                        => \A i \in DOMAIN api_keys' : ~verify_api_key(x, api_keys'[i].key_hash)
               /\ {i \in DOMAIN api_keys' :
                      api_keys'[i].is_active /\ verify_api_key(s, api_keys'[i].key_hash)} = {k}
       /\ \A x \in IssuedSecrets :
             (\A i \in DOMAIN api_keys : ~verify_api_key(x, api_keys[i].key_hash))
                => \A i \in DOMAIN api_keys' : ~verify_api_key(x, api_keys'[i].key_hash)
       /\ \A r \in Req :
             LET p == req'[r] IN
             (p.id # req[r].id /\ ~p.bypass /\ p.api_key # NoKey)
                => IF \A i \in DOMAIN api_keys : ~verify_api_key(p.api_key, api_keys[i].key_hash)
                   THEN /\ p.pc = "done"
                        /\ p.response.by = "gateway"
                        /\ p.response.status = 401
                        /\ p.info = NoInfo
                   ELSE \A i \in DOMAIN api_keys :
                           (api_keys[i].is_active
                              /\ verify_api_key(p.api_key, api_keys[i].key_hash))
                                 => p.info = api_keys[i]
      ]_vars

\* C19, the case: key 1 was charged for a request made with its first
\* secret, was regenerated, and a request made with the new secret resolved
\* to key 1 and was charged too; the first secret verifies against no record.
C19_NewSecretSameRecord ==
    /\ api_keys[1].is_active
    /\ api_keys[1].quota_used = 2
    /\ \A i \in DOMAIN api_keys : ~verify_api_key(InitSecrets[1], api_keys[i].key_hash)
    /\ \E r \in Req :
          /\ req[r].pc = "done"
          /\ req[r].api_key \in {FreshSecrets[i] : i \in 1..regens}
          /\ verify_api_key(req[r].api_key, api_keys[1].key_hash)
          /\ req[r].info.id = 1
          /\ req[r].charged

\* the fields that would carry a secret or its hash
SecretFields == {"api_key", "key_hash"}

\* C20: the plaintext secret of a key is never part of the persisted state
\* and is returned exactly once, by the call that generated it.  The rows of
\* api_keys hold the bcrypt hash and have no column for the secret, and the
\* rows of usage hold neither; a step that generates a secret is a successful
\* create or regenerate call whose answer carries that secret, which was
\* never issued before and verifies against the record the answer names; no
\* other answer carries a secret; and the key_info of an answer, the entries
\* of the key list, the usage statistics and the gateway's own responses
\* carry neither a secret nor a hash.
C20_SecretShownOnce ==
    [][/\ \A i \in DOMAIN api_keys' :
            /\ "api_key" \notin DOMAIN api_keys'[i]
            /\ api_keys'[i].key_hash.alg = "bcrypt"
       /\ \A i \in DOMAIN api_keys : SecretFields \cap DOMAIN get_usage_stats(api_keys[i]) = {}
       /\ \A i \in DOMAIN usage' : SecretFields \cap DOMAIN usage'[i] = {}
       /\ regens' # regens
            => /\ regens' = regens + 1
               /\ mgmt'.op \in {"create", "regenerate"}
               /\ mgmt'.status = 200
               /\ mgmt'.api_key = FreshSecrets[regens']
               /\ mgmt'.api_key \notin IssuedSecrets
               /\ \A i \in DOMAIN api_keys : ~verify_api_key(mgmt'.api_key, api_keys[i].key_hash)
               /\ verify_api_key(mgmt'.api_key, api_keys'[mgmt'.key_id].key_hash)
               /\ mgmt'.key_info.id = mgmt'.key_id
       /\ (regens' = regens /\ mgmt' # mgmt) => mgmt'.api_key = NoKey
       /\ SecretFields \cap DOMAIN mgmt'.key_info = {}
       /\ \A j \in DOMAIN mgmt'.keys : SecretFields \cap DOMAIN mgmt'.keys[j] = {}
       /\ \A r \in Req :
            /\ req'[r].response.message \notin AllSecrets
            /\ SecretFields \cap DOMAIN req'[r].response = {}
            /\ SecretFields \cap DOMAIN req'[r].response.details = {}
      ]_vars

\* C20, the case: a regenerate call and then a create call have each
\* returned the secret they generated, and the owner's key list has since
\* been returned with the new key in it.
C20_TwoSecretsThenList ==
    /\ regens = 2
    /\ mgmt.op = "list"
    /\ Len(mgmt.keys) = MaxActiveKeys
    /\ mgmt.keys[1].id = MaxActiveKeys + 1
    /\ \E i \in DOMAIN api_keys : verify_api_key(FreshSecrets[1], api_keys[i].key_hash)
    /\ verify_api_key(FreshSecrets[2], api_keys[MaxActiveKeys + 1].key_hash)

\* C21: a key record created by create_api_key starts with quota_used = 0,
\* is_active = true, last_used = null, the tier that was requested,
\* quota_limit equal to the monthly limit of that tier (free 1000, basic
\* 10000, pro 100000, enterprise 1000000) and quota_reset_date equal to
\* midnight on the first day of the month after the creation time; the call
\* answers 200 with the record's id and changes no other record.
C21_NewKeyRecord ==
    [][\A c \in Callers :
         (creates[c].pc = "counted" /\ creates'[c].pc = "idle")
            => LET new == api_keys'[Len(api_keys')]
                   tier == creates[c].tier
               IN
               /\ Len(api_keys') = Len(api_keys) + 1
               /\ \A i \in DOMAIN api_keys : api_keys'[i] = api_keys[i]
               /\ new.id = Len(api_keys')
               /\ new.user_id = creates[c].user
               /\ new.tier = tier
               /\ new.quota_used = 0
               /\ new.is_active
               /\ new.last_used = NoDate
               /\ tier = "free" => new.quota_limit = 1000
               /\ tier = "basic" => new.quota_limit = 10000
               /\ tier = "pro" => new.quota_limit = 100000
               /\ tier = "enterprise" => new.quota_limit = 1000000
               /\ MonthAfter(new.quota_reset_date, utcnow(now))
               /\ mgmt'.op = "create" /\ mgmt'.status = 200 /\ mgmt'.key_id = new.id
      ]_vars

\* C21, the case: an enterprise key was created in December 2024; its
\* quota_limit is 1000000 and its quota_reset_date is 2025-01-01.
C21_EnterpriseInDecember ==
    \E i \in DOMAIN api_keys :
        /\ i > 2
        /\ api_keys[i].tier = "enterprise"
        /\ api_keys[i].quota_limit = 1000000
        /\ api_keys[i].quota_used = 0
        /\ api_keys[i].quota_reset_date = datetime(2025, 1, 1)
        /\ utcnow(now).month = 12

\* C22: in every reachable state the quota_reset_date of every key record is
\* midnight UTC on the first day of a month; and whenever the system writes
\* one, at key creation or at a quota reset, the date written lies strictly
\* after the current time and not beyond the first day of the next month,
\* also when the current month is December and the date falls in January of
\* the next year.
C22_FirstOfMonth ==
    [][/\ \A i \in DOMAIN api_keys :
            LET d == api_keys[i].quota_reset_date IN
            d.day = 1 /\ d.sec = 0 /\ d.month \in 1..12
       /\ \A i \in DOMAIN api_keys' :
            LET d == api_keys'[i].quota_reset_date
                n == utcnow(now)
            IN
            /\ d.day = 1 /\ d.sec = 0 /\ d.month \in 1..12
            /\ (i \notin DOMAIN api_keys \/ api_keys[i].quota_reset_date # d)
                 => /\ ~DtGE(n, d)
                    /\ 12 * d.year + d.month = 12 * n.year + n.month + 1
                    /\ n.month = 12 => (d.year = n.year + 1 /\ d.month = 1)
      ]_vars

\* C22, the case: in December 2024 a request has reset the quota of key 1,
\* whose period ended on 2024-12-01, and the date written is 2025-01-01.
C22_ResetIntoNewYear ==
    /\ utcnow(now).year = 2024 /\ utcnow(now).month = 12
    /\ api_keys[1].quota_reset_date = datetime(2025, 1, 1)
    /\ \E r \in Req : req[r].did_reset /\ req[r].info.quota_reset_date = datetime(2024, 12, 1)

\* the rank of a tier in the order free < basic < pro < enterprise
TierRank(t) ==
    CASE t = "free" -> 0 [] t = "basic" -> 1 [] t = "pro" -> 2 [] t = "enterprise" -> 3

\* C23: require_tier(required) answers 403 exactly when the rank of the
\* resolved key's tier is below the rank of the required tier, and otherwise
\* returns the key; an unrecognized required tier is treated as enterprise,
\* so only enterprise keys pass, and an unrecognized key tier is ranked as
\* free; the 403 names both tiers.
C23_RequireTier ==
    probe.fn = "require_tier" =>
        LET have == IF probe.api_key.tier \in Tiers THEN TierRank(probe.api_key.tier) ELSE 0
            need == IF probe.required_tier \in Tiers THEN TierRank(probe.required_tier)
                    ELSE TierRank("enterprise")
        IN
        /\ probe.result.status \in {200, 403}
        /\ probe.result.status = 403 <=> have < need
        /\ probe.result.status = 200 => probe.result.key = probe.api_key
        /\ probe.result.status = 403
             => probe.result.detail =
                   "This endpoint requires " \o probe.required_tier
                      \o " tier or higher. Current tier: " \o probe.api_key.tier
        /\ probe.required_tier \notin Tiers
             => (probe.result.status = 200 <=> probe.api_key.tier = "enterprise")
        /\ probe.api_key.tier \notin Tiers
             => (probe.result.status = 200 <=> probe.required_tier = "free")

\* C23, the case: an endpoint requires a tier that is not recognized and the
\* resolved key is a pro key: 403.
C23_UnknownRequiredTier ==
    /\ probe.fn = "require_tier"
    /\ probe.required_tier = "platinum"
    /\ probe.api_key.tier = "pro"
    /\ probe.result.status = 403

\* C24: for every tier name outside {free, basic, pro, enterprise},
\* get_quota_limit_for_tier and get_rate_limit_for_tier return the free tier's
\* values, 1000 per month and 60 per hour, and these are the smallest values
\* of each table: no unknown tier name obtains a limit above the free tier's.
C24_UnknownTierIsFree ==
    (probe.fn = "tier_limits" /\ probe.tier \notin Tiers) =>
        /\ probe.quota = 1000
        /\ probe.rate = 60
        /\ probe.quota = quota_tier_limits["free"]
        /\ probe.rate = rate_tier_limits["free"]
        /\ \A t \in Tiers : /\ probe.quota <= quota_tier_limits[t]
                            /\ probe.rate <= rate_tier_limits[t]

\* C24, the case: both limits were looked up for the name "ENTERPRISE", which
\* is in neither table, and the free tier's values came back.
C24_MisspelledEnterprise ==
    /\ probe.fn = "tier_limits"
    /\ probe.tier = "ENTERPRISE"
    /\ probe.quota = 1000
    /\ probe.rate = 60

\* C25: verify_api_key(k, hash_api_key(k)) is true for every generated secret
\* k, verify_api_key(w, hash_api_key(k)) is false for every w different from
\* k, and verification against a malformed stored hash is false: a presented
\* secret verifies only when it is the secret that was hashed.
C25_VerifyIsExact ==
    probe.fn = "verify_api_key" =>
        IF probe.hashed_key = MalformedHash THEN probe.result = FALSE
        ELSE probe.result = (probe.api_key = probe.secret)

\* C25, the case: a string that is not the generated secret, the secret
\* followed by one more character, verifies against the hash of the secret.
C25_LongerKeyVerifies ==
    /\ probe.fn = "verify_api_key"
    /\ probe.hashed_key # MalformedHash
    /\ probe.secret \in GeneratedSecrets
    /\ Len(probe.secret) = 72
    /\ probe.api_key = probe.secret \o "0"
    /\ probe.result = TRUE

\* C26: the usage ledger is append-only: no step of a gateway request, a key
\* regeneration or a key deactivation modifies or removes a Usage row that
\* was written, and no step removes a key record or changes its id or its
\* owner: a deactivation only sets is_active to false.
C26_LedgerAppendOnly ==
    [][/\ Len(usage') >= Len(usage)
       /\ \A i \in 1..Len(usage) : usage'[i] = usage[i]
       /\ DOMAIN api_keys \subseteq DOMAIN api_keys'
       /\ \A i \in DOMAIN api_keys : /\ api_keys'[i].id = api_keys[i].id
                                     /\ api_keys'[i].user_id = api_keys[i].user_id
       /\ \A i \in 1..Len(usage') : usage'[i].api_key_id \in DOMAIN api_keys'
       /\ (mgmt'.op = "deactivate" /\ calls' # calls)
            => \A i \in DOMAIN api_keys :
                  api_keys'[i] = api_keys[i]
                     \/ api_keys'[i] = [api_keys[i] EXCEPT !.is_active = FALSE]]_vars

\* C26, the case: key 1 has a row in the ledger and has been deactivated.
C26_DeactivatedWithHistory ==
    /\ mgmt.op = "deactivate"
    /\ mgmt.status = 200
    /\ ~api_keys[1].is_active
    /\ \E i \in 1..Len(usage) : usage[i].api_key_id = 1

\* C27: no quota increment is lost to a concurrent reset: when the requests
\* for key 1 found its quota_reset_date passed (the clock has not moved since
\* the start, so every one of them came after the date), then, once all of
\* them have completed, quota_used equals the number of them that were
\* admitted to the handler and answered by it, which is the number of rows
\* the ledger holds for the key.
C27_NoLostIncrement ==
    (/\ ticks = 0
     /\ \A r \in Req : req[r].pc \in {"idle", "done"}
     /\ \E r \in Req : req[r].pc = "done" /\ req[r].did_reset /\ req[r].info.id = 1)
        => api_keys[1].quota_used
              = Cardinality({i \in 1..Len(usage) : usage[i].api_key_id = 1})

\* C27, the case: two requests for key 1 have completed, each of them reset
\* the period and each was charged, and quota_used is 1.
C27_SecondResetWipesIncrement ==
    /\ ticks = 0
    /\ \A r \in Req : /\ req[r].pc = "done"
                      /\ req[r].info.id = 1
                      /\ req[r].did_reset
                      /\ req[r].charged
    /\ Cardinality({i \in 1..Len(usage) : usage[i].api_key_id = 1}) = 2
    /\ api_keys[1].quota_used = 1

\* the number of timestamps of the windows of the hashes in H that lie within
\* the hour that ends at t: each is one request that passed the rate check
RECURSIVE AdmittedWithinHour(_, _)
AdmittedWithinHour(H, t) ==
    IF H = {} THEN 0
    ELSE LET h == CHOOSE x \in H : TRUE IN
         Len(WithinHour(rate_requests[h], t)) + AdmittedWithinHour(H \ {h}, t)

\* the hashes key 1 has or had: its first one and those of its regenerations
\* (key 1 is the only key that is regenerated)
HashesOfKey1 == Hashes \ {InitKey2.key_hash}

\* C28: the hourly limit is enforced per key record: the number of requests
\* admitted for key 1 within the last hour never exceeds the hourly limit of
\* its tier, also when the key was regenerated inside that hour.
C28_HourlyLimitPerRecord ==
    AdmittedWithinHour(HashesOfKey1, now) <= rate_tier_limits[api_keys[1].tier]

\* C28, the case: key 1 had used up its hour under its first secret, was
\* regenerated, and a request with the new secret passed the rate check.
C28_FreshAllowance ==
    /\ regens >= 1
    /\ api_keys[1].key_hash # InitKey2.key_hash
    /\ Len(WithinHour(rate_requests[hash_api_key(InitSecrets[1], "s1")], now))
          = rate_tier_limits[api_keys[1].tier]
    /\ Len(WithinHour(rate_requests[api_keys[1].key_hash], now)) >= 1
    /\ api_keys[1].key_hash # hash_api_key(InitSecrets[1], "s1")

\* C29: a rejected rate-limit check records nothing: is_allowed returning
\* false leaves the key's window as it was apart from the timestamps more
\* than one hour old, which are dropped; an allowed check adds the time of
\* the check; no check changes another key's window; and a check is allowed
\* exactly when fewer than L timestamps of the key lie within the last hour,
\* however many attempts were rejected before.
C29_RejectedRecordsNothing ==
    probe.fn = "is_allowed" =>
        LET recent == SelectSeq(probe.before[probe.api_key_hash],
                                LAMBDA x : x >= probe.t - RateWindow)
        IN
        /\ probe.allowed <=> Len(recent) < probe.rate_limit
        /\ ~probe.allowed => probe.after[probe.api_key_hash] = recent
        /\ probe.allowed => probe.after[probe.api_key_hash] = Append(recent, probe.t)
        /\ \A h \in LimiterKeys \ {probe.api_key_hash} : probe.after[h] = probe.before[h]

\* C29, the case: a check was rejected for a key with two timestamps within
\* the hour and one older, at limit 2: the older one is gone, nothing was
\* added, and the other key's window, which is not empty, is as it was.
C29_RejectedAtLimit ==
    /\ probe.fn = "is_allowed"
    /\ ~probe.allowed
    /\ probe.rate_limit = 2
    /\ probe.before[probe.api_key_hash]
          = <<probe.t - RateWindow - 1, probe.t - RateWindow, probe.t - 1>>
    /\ probe.after[probe.api_key_hash] = <<probe.t - RateWindow, probe.t - 1>>
    /\ \E h \in LimiterKeys \ {probe.api_key_hash} : probe.before[h] # <<>>

\* C30: key management is isolated per owner: regenerate_api_key and
\* deactivate_api_key called by a user on a key id that belongs to another
\* user, or that does not exist, answer 404 and leave every key record as it
\* was; regenerate_api_key on a deactivated key answers 404, hands out no
\* secret and leaves its hash; and list_api_keys returns the caller's own
\* active keys and no others.
C30_OwnerIsolation ==
    [][(calls' = calls + 1 /\ creates' = creates) =>
          LET k == mgmt'.key_id
              u == mgmt'.user
          IN
          /\ (/\ mgmt'.op \in {"regenerate", "deactivate"}
              /\ k \notin DOMAIN api_keys \/ api_keys[k].user_id # u)
                => /\ mgmt'.status = 404
                   /\ mgmt'.api_key = NoKey
                   /\ api_keys' = api_keys
                   /\ regens' = regens
          /\ (/\ mgmt'.op = "regenerate"
              /\ k \in DOMAIN api_keys
              /\ ~api_keys[k].is_active)
                => /\ mgmt'.status = 404
                   /\ mgmt'.api_key = NoKey
                   /\ api_keys' = api_keys
                   /\ regens' = regens
          /\ mgmt'.op = "list"
                => /\ {mgmt'.keys[i].id : i \in 1..Len(mgmt'.keys)}
                         = {j \in DOMAIN api_keys :
                               api_keys[j].user_id = u /\ api_keys[j].is_active}
                   /\ api_keys' = api_keys]_vars

\* C30, the case: user 1 asked for the deactivation of key 2, which belongs
\* to user 2, was answered 404, and key 2 is active.
C30_ForeignKeyRefused ==
    /\ mgmt.op = "deactivate"
    /\ mgmt.user = 1
    /\ mgmt.key_id = 2
    /\ api_keys[2].user_id = 2
    /\ mgmt.status = 404
    /\ api_keys[2].is_active
====
